---- MODULE Spec2Model ----
(***************************************************************************)
(* fi-video-serve: the edge gateway of the film delivery platform           *)
(* (delivery/workers/video-serve/src/index.js).  It serves HLS playlists,   *)
(* segments and thumbnails from the object store without authentication and *)
(* gates the full-resolution originals behind a 24 hour HS256 token that is *)
(* minted against a per-couple password held in a key-value store.          *)
(*                                                                          *)
(* Text is a sequence of one-character strings, bytes are numbers 0..255.   *)
(* A header that is absent is the empty text: the code tests headers only   *)
(* with `!value`, which does not tell null from ''.                        *)
(***************************************************************************)
EXTENDS Integers, Sequences, FiniteSets, TLC

(***************************************************************************)
(* Characters.                                                             *)
(***************************************************************************)

\* The printable ASCII characters, code 32 first (the grave accent, code 96,
\* is spelled out: no text of the worker contains it).
Ascii ==
    <<" ", "!", "\"", "#", "$", "%", "&", "'", "(", ")", "*", "+", ",", "-",
    ".", "/", "0", "1", "2", "3", "4", "5", "6", "7", "8", "9", ":", ";",
    "<", "=", ">", "?", "@", "A", "B", "C", "D", "E", "F", "G", "H", "I",
    "J", "K", "L", "M", "N", "O", "P", "Q", "R", "S", "T", "U", "V", "W",
    "X", "Y", "Z", "[", "\\", "]", "^", "_", "GRAVE", "a", "b", "c", "d", "e",
    "f", "g", "h", "i", "j", "k", "l", "m", "n", "o", "p", "q", "r", "s",
    "t", "u", "v", "w", "x", "y", "z", "{", "|", "}", "~">>

AsciiBase == 32

\* charCodeAt: the code of a printable character.
Ord == [c \in {Ascii[i] : i \in 1..Len(Ascii)} |->
          AsciiBase - 1 + (CHOOSE i \in 1..Len(Ascii) : Ascii[i] = c)]

\* String.fromCharCode, for the bytes that are printable; every other byte
\* is shown as the character DEL stands for here, which no text contains.
Unprintable == "~~"

Chr(b) == IF b >= AsciiBase /\ b < AsciiBase + Len(Ascii)
          THEN Ascii[b - AsciiBase + 1] ELSE Unprintable

\* The standard base64 alphabet, as btoa emits it and atob accepts it.
B64Alphabet ==
    <<"A", "B", "C", "D", "E", "F", "G", "H", "I", "J", "K", "L", "M", "N",
    "O", "P", "Q", "R", "S", "T", "U", "V", "W", "X", "Y", "Z", "a", "b",
    "c", "d", "e", "f", "g", "h", "i", "j", "k", "l", "m", "n", "o", "p",
    "q", "r", "s", "t", "u", "v", "w", "x", "y", "z", "0", "1", "2", "3",
    "4", "5", "6", "7", "8", "9", "+", "/">>

B64Chars == {B64Alphabet[i] : i \in 1..Len(B64Alphabet)}

B64Val == [c \in B64Chars |->
             (CHOOSE i \in 1..Len(B64Alphabet) : B64Alphabet[i] = c) - 1]

Digits == <<"0", "1", "2", "3", "4", "5", "6", "7", "8", "9">>

(***************************************************************************)
(* Text helpers: the String methods the worker uses.                       *)
(***************************************************************************)

\* A sequence given by a rule, as the tuple of its elements.
Tuple(f) == f \o <<>>

\* s.startsWith(p)
StartsWith(s, p) == Len(s) >= Len(p) /\ SubSeq(s, 1, Len(p)) = p

\* s.endsWith(p)
EndsWith(s, p) ==
    Len(s) >= Len(p) /\ SubSeq(s, Len(s) - Len(p) + 1, Len(s)) = p

\* s.slice(n)
Slice(s, n) == SubSeq(s, n + 1, Len(s))

\* s.replace(/x/g, y) for single characters
ReplaceAll(s, x, y) ==
    Tuple([i \in 1..Len(s) |-> IF s[i] = x THEN y ELSE s[i]])

\* The positions of the separator in s, in increasing order.
RECURSIVE SortedSeq(_)
SortedSeq(S) ==
    IF S = {} THEN <<>>
    ELSE LET m == CHOOSE x \in S : \A y \in S : x <= y
         IN  <<m>> \o SortedSeq(S \ {m})

\* s.split(sep) for a one-character separator
Split(s, sep) ==
    LET cuts == SortedSeq({i \in 1..Len(s) : s[i] = sep})
        from(k) == IF k = 1 THEN 1 ELSE cuts[k - 1] + 1
        upto(k) == IF k = Len(cuts) + 1 THEN Len(s) ELSE cuts[k] - 1
    IN  Tuple([k \in 1..(Len(cuts) + 1) |-> SubSeq(s, from(k), upto(k))])

\* parts.join(sep)
RECURSIVE Join(_, _)
Join(parts, sep) ==
    IF Len(parts) = 0 THEN <<>>
    ELSE IF Len(parts) = 1 THEN parts[1]
    ELSE parts[1] \o <<sep>> \o Join(Tail(parts), sep)

\* String(n) for a natural number
RECURSIVE NumText(_)
NumText(n) ==
    IF n < 10 THEN <<Digits[n + 1]>>
    ELSE NumText(n \div 10) \o <<Digits[(n % 10) + 1]>>

IsDigit(c) == \E i \in 1..Len(Digits) : Digits[i] = c

\* The number a run of digits denotes.
RECURSIVE TextNum(_)
TextNum(s) ==
    IF Len(s) = 0 THEN 0
    ELSE 10 * TextNum(SubSeq(s, 1, Len(s) - 1))
         + ((CHOOSE i \in 1..Len(Digits) : Digits[i] = s[Len(s)]) - 1)

\* TextEncoder.encode on printable text
Bytes(s) == Tuple([i \in 1..Len(s) |-> Ord[s[i]]])

(***************************************************************************)
(* base64url, lines 156-174.                                               *)
(***************************************************************************)

\* btoa on a byte string, then `=` padding stripped and `+` `/` mapped to
\* `-` `_` (the three replace calls of base64urlEncode): every three bytes
\* give four characters, the last group as many as its bytes need.
Base64urlOfBytes(bytes) ==
    LET n      == Len(bytes)
        outN   == 4 * (n \div 3) + (IF n % 3 = 0 THEN 0 ELSE (n % 3) + 1)
        padded == bytes \o <<0, 0>>
        sextet(g, k) ==
            IF k = 0 THEN padded[g + 1] \div 4
            ELSE IF k = 1
            THEN (padded[g + 1] % 4) * 16 + (padded[g + 2] \div 16)
            ELSE IF k = 2
            THEN (padded[g + 2] % 16) * 4 + (padded[g + 3] \div 64)
            ELSE padded[g + 3] % 64
        plain  == Tuple([j \in 1..outN |->
                     B64Alphabet[sextet(3 * ((j - 1) \div 4), (j - 1) % 4) + 1]])
    IN  ReplaceAll(ReplaceAll(plain, "+", "-"), "/", "_")

\* base64urlEncode(data) for a string argument (line 157 picks the string).
base64urlEncode(str) == Base64urlOfBytes(Bytes(str))

\* base64urlEncodeBytes(buffer)
base64urlEncodeBytes(buffer) == Base64urlOfBytes(buffer)

\* atob: the forgiving-base64 decode of the HTML standard.  White space is
\* dropped, one or two closing `=` are dropped from a text whose length is a
\* multiple of four, and what is left must be of the alphabet and not one
\* character over a multiple of four; every four characters give three
\* bytes, and the bits left over at the end are dropped.  The result is
\* [ok |-> TRUE, bytes |-> ...], or ok is FALSE for InvalidCharacterError.
Atob(str) ==
    LET noWs == SelectSeq(str, LAMBDA c : c /= " ")
        len  == Len(noWs)
        eqs  == IF len % 4 /= 0 \/ len = 0 THEN 0
                ELSE IF noWs[len] /= "=" THEN 0
                ELSE IF noWs[len - 1] /= "=" THEN 1
                ELSE 2
        m    == len - eqs
        bad  == m % 4 = 1 \/ \E i \in 1..m : noWs[i] \notin B64Chars
        outN == 3 * (m \div 4) + (IF m % 4 = 0 THEN 0 ELSE (m % 4) - 1)
        val  == Tuple([i \in 1..(m + 3) |->
                          IF i <= m THEN B64Val[noWs[i]] ELSE 0])
        byte(g, k) ==
            IF k = 0 THEN val[g + 1] * 4 + (val[g + 2] \div 16)
            ELSE IF k = 1
            THEN (val[g + 2] % 16) * 16 + (val[g + 3] \div 4)
            ELSE (val[g + 3] % 4) * 64 + val[g + 4]
    IN  IF bad THEN [ok |-> FALSE, bytes |-> <<>>]
        ELSE [ok |-> TRUE,
              bytes |-> Tuple([i \in 1..outN |->
                           byte(4 * ((i - 1) \div 3), (i - 1) % 3)])]

\* base64urlDecode(str): `-` `_` mapped back, padded with `=` to a multiple
\* of four, then atob.
base64urlDecode(str) ==
    LET std == ReplaceAll(ReplaceAll(str, "-", "+"), "_", "/")
        pad == (4 - (Len(std) % 4)) % 4
    IN  Atob(std \o [i \in 1..pad |-> "="])

(***************************************************************************)
(* JSON, as far as the token payload needs it.  A payload object is a      *)
(* record of its three claims; a claim is <<v>> when present and <<>> when *)
(* the property is undefined.                                              *)
(***************************************************************************)

Quote(s) == <<"\"">> \o s \o <<"\"">>

Claims(slug, iat, exp) == [slug |-> slug, iat |-> iat, exp |-> exp]

\* JSON.stringify of a payload object: the properties in insertion order
\* (slug, iat, exp), undefined ones left out.  A slug comes from URL.pathname
\* and so holds no character JSON would escape.
StringifyPayload(p) ==
    LET members ==
            (IF p.slug = <<>> THEN <<>>
             ELSE <<Quote(<<"s", "l", "u", "g">>) \o <<":">> \o Quote(p.slug[1])>>)
            \o (IF p.iat = <<>> THEN <<>>
                ELSE <<Quote(<<"i", "a", "t">>) \o <<":">> \o NumText(p.iat[1])>>)
            \o (IF p.exp = <<>> THEN <<>>
                ELSE <<Quote(<<"e", "x", "p">>) \o <<":">> \o NumText(p.exp[1])>>)
    IN  <<"{">> \o Join(members, ",") \o <<"}">>

\* JSON.stringify({ alg: 'HS256', typ: 'JWT' })
JwtHeaderJson ==
    <<"{", "\"", "a", "l", "g", "\"", ":", "\"", "H", "S", "2", "5", "6",
    "\"", ",", "\"", "t", "y", "p", "\"", ":", "\"", "J", "W", "T", "\"",
    "}">>

IsQuoted(s) ==
    /\ Len(s) >= 2
    /\ s[1] = "\"" /\ s[Len(s)] = "\""
    /\ \A i \in 2..(Len(s) - 1) : s[i] \notin {"\"", "\\", Unprintable}

IsNumber(s) ==
    /\ Len(s) >= 1
    /\ \A i \in 1..Len(s) : IsDigit(s[i])
    /\ (Len(s) > 1 => s[1] /= "0")

Unquote(s) == SubSeq(s, 2, Len(s) - 1)

\* JSON.parse on the text of a flat object whose values are strings and
\* natural numbers, the shape StringifyPayload emits; ok is FALSE where
\* JSON.parse throws a SyntaxError.  A later member overrides an earlier one
\* of the same name.
ParsePayload(s) ==
    LET braced  == Len(s) >= 2 /\ s[1] = "{" /\ s[Len(s)] = "}"
        inner   == SubSeq(s, 2, Len(s) - 1)
        members == IF Len(inner) = 0 THEN <<>> ELSE Split(inner, ",")
        n       == Len(members)
        kv      == Tuple([k \in 1..n |-> Split(members[k], ":")])
        isText  == Tuple([k \in 1..n |-> Len(kv[k]) = 2 /\ IsQuoted(kv[k][2])])
        isNum   == Tuple([k \in 1..n |-> Len(kv[k]) = 2 /\ IsNumber(kv[k][2])])
        wellFormed ==
            \A k \in 1..n : IsQuoted(kv[k][1]) /\ (isText[k] \/ isNum[k])
        last(name) ==
            LET hits == {k \in 1..n : kv[k][1] = Quote(name)}
            IN  IF hits = {} THEN 0
                ELSE CHOOSE k \in hits : \A j \in hits : j <= k
        text(k) == IF k = 0 \/ ~isText[k] THEN <<>> ELSE <<Unquote(kv[k][2])>>
        num(k)  == IF k = 0 \/ ~isNum[k] THEN <<>> ELSE <<TextNum(kv[k][2])>>
    IN  IF braced /\ wellFormed
        THEN [ok |-> TRUE,
              value |-> Claims(text(last(<<"s", "l", "u", "g">>)),
                               num(last(<<"i", "a", "t">>)),
                               num(last(<<"e", "x", "p">>)))]
        ELSE [ok |-> FALSE, value |-> Claims(<<>>, <<>>, <<>>)]

(***************************************************************************)
(* JWT helpers, lines 176-236.                                             *)
(***************************************************************************)

\* base64urlEncode(JSON.stringify(header))
EncodedJwtHeader == base64urlEncode(JwtHeaderJson)

\* The lifetime of a token in seconds (line 189).
TokenTtl == 86400

\* HMAC-SHA256 is taken as an ideal MAC.  crypto is the list of the pairs
\* (secret, data) that have been signed so far, and the tag of a pair is the
\* byte string holding its place in the list: tags of different pairs
\* differ, and the tag of a pair that was never signed is not known to
\* anybody.
MacEntry(secret, data) == [secret |-> secret, data |-> data]

MacPlace(crypto, secret, data) ==
    LET hits == {n \in 1..Len(crypto) : crypto[n] = MacEntry(secret, data)}
    IN  IF hits = {} THEN Len(crypto) + 1 ELSE CHOOSE n \in hits : TRUE

\* crypto.subtle.sign('HMAC', key, data) with the key getSigningKey imports
\* from the secret.
Hmac(crypto, secret, data) == <<MacPlace(crypto, secret, data)>>

\* The list after that call.
Signed(crypto, secret, data) ==
    IF MacPlace(crypto, secret, data) <= Len(crypto) THEN crypto
    ELSE Append(crypto, MacEntry(secret, data))

\* A verify that does not look at the key: any party's tag for the data
\* passes.
HmacVerify_AnyKey(crypto, secret, sigBytes, data) ==
    \E n \in 1..Len(crypto) : crypto[n].data = data /\ sigBytes = <<n>>

\* A verify that does not look at the data: any tag made under the key
\* passes.
HmacVerify_AnyData(crypto, secret, sigBytes, data) ==
    \E n \in 1..Len(crypto) : crypto[n].secret = secret /\ sigBytes = <<n>>

\* crypto.subtle.verify('HMAC', key, sigBytes, data)
HmacVerify(crypto, secret, sigBytes, data) ==
    /\ MacPlace(crypto, secret, data) <= Len(crypto)
    /\ sigBytes = Hmac(crypto, secret, data)

\* signJWT(payload, secret).  Date.now() is read twice: tExp is the reading
\* of line 189, in whole seconds, tIat the reading of line 190.
signJWT(crypto, payload, secret, tExp, tIat) ==
    LET exp            == tExp + TokenTtl
        fullPayload    == Claims(payload.slug, <<tIat>>, <<exp>>)
        encodedHeader  == EncodedJwtHeader
        encodedPayload == base64urlEncode(StringifyPayload(fullPayload))
        signingInput   == encodedHeader \o <<".">> \o encodedPayload
        signature      == Hmac(crypto, secret, signingInput)
    IN  signingInput \o <<".">> \o base64urlEncodeBytes(signature)

\* The text a token's signature covers: the token without its last part.
SigningInput(token) ==
    LET parts == Split(token, ".")
    IN  Join(SubSeq(parts, 1, Len(parts) - 1), ".")

NoClaims == Claims(<<>>, <<>>, <<>>)

\* An expiry test that never fires.
Expired_Never(payload, t) == FALSE

\* An expiry test with the comparison turned round.
Expired_Flipped(payload, t) ==
    payload.exp /= <<>> /\ payload.exp[1] /= 0 /\ payload.exp[1] > t

\* An expiry test that also turns a token down in its last second.
Expired_Inclusive(payload, t) ==
    payload.exp /= <<>> /\ payload.exp[1] /= 0 /\ payload.exp[1] <= t

\* payload.exp && payload.exp < Math.floor(Date.now() / 1000), line 231
Expired(payload, t) ==
    payload.exp /= <<>> /\ payload.exp[1] /= 0 /\ payload.exp[1] < t

Payload(p) == [kind |-> "payload", payload |-> p]
Null       == [kind |-> "null", payload |-> NoClaims]
Throws     == [kind |-> "throws", payload |-> NoClaims]

\* The binary string atob returns, from its bytes.
BinaryString(bytes) == Tuple([i \in 1..Len(bytes) |-> Chr(bytes[i])])

\* verifyJWT(token, secret) when Math.floor(Date.now() / 1000) reads t: the
\* payload, null, or the exception that atob or JSON.parse raises.  The
\* function is written as the steps it goes through, each taking what the
\* step before has computed.

\* Lines 231-235: parsed is what JSON.parse made of the payload part.
verifyJWT_parsed(parsed, t) ==
    IF ~parsed.ok THEN Throws
    ELSE IF Expired(parsed.value, t) THEN Null
    ELSE Payload(parsed.value)

\* Lines 228-230: valid is the answer of crypto.subtle.verify, decoded what
\* base64urlDecode(encodedPayload) gives.
verifyJWT_valid(valid, decoded, t) ==
    IF ~valid THEN Null
    ELSE IF ~decoded.ok THEN Throws
    ELSE verifyJWT_parsed(ParsePayload(BinaryString(decoded.bytes)), t)

\* Lines 216-226: sigStr is what base64urlDecode(encodedSignature) gives.
verifyJWT_sigStr(crypto, secret, signingInput, encodedPayload, sigStr, t) ==
    IF ~sigStr.ok THEN Throws
    ELSE verifyJWT_valid(HmacVerify(crypto, secret, sigStr.bytes,
                                    signingInput),
                         base64urlDecode(encodedPayload), t)

\* Lines 208-215: parts is token.split('.').
verifyJWT_parts(crypto, parts, secret, t) ==
    IF Len(parts) /= 3 THEN Null
    ELSE verifyJWT_sigStr(crypto, secret,
                          parts[1] \o <<".">> \o parts[2], parts[2],
                          base64urlDecode(parts[3]), t)

verifyJWT(crypto, token, secret, t) ==
    verifyJWT_parts(crypto, Split(token, "."), secret, t)

(***************************************************************************)
(* CORS and response helpers, lines 242-275.                               *)
(***************************************************************************)

T_Apex      == <<"h", "t", "t", "p", "s", ":", "/", "/", "f", "l", "y", "i", "n", "i", "r", "i", "s", ".", "c", "o", "m">>
T_SubSuffix == <<".", "f", "l", "y", "i", "n", "i", "r", "i", "s", ".", "c", "o", "m">>
T_Https     == <<"h", "t", "t", "p", "s", ":", "/", "/">>
T_Bearer    == <<"B", "e", "a", "r", "e", "r", " ">>
T_Couples   == <<"c", "o", "u", "p", "l", "e", "s">>
T_Auth      == <<"a", "u", "t", "h">>
T_Download  == <<"d", "o", "w", "n", "l", "o", "a", "d">>
T_Hls       == <<"h", "l", "s">>
T_Thumbs    == <<"t", "h", "u", "m", "b", "s">>
T_Originals == <<"o", "r", "i", "g", "i", "n", "a", "l", "s">>
T_Mp4       == <<".", "m", "p", "4">>
T_Jpg       == <<".", "j", "p", "g">>
T_M3u8      == <<"m", "3", "u", "8">>
T_Ts        == <<"t", "s">>

\* 'public, max-age=3600' and 'public, max-age=31536000'
T_CacheShort == <<"p", "u", "b", "l", "i", "c", ",", " ", "m", "a", "x", "-", "a", "g", "e", "=", "3", "6", "0", "0">>
T_CacheLong  == <<"p", "u", "b", "l", "i", "c", ",", " ", "m", "a", "x", "-", "a", "g", "e", "=", "3", "1", "5", "3", "6", "0", "0", "0">>

\* isAllowedOrigin(origin)
isAllowedOrigin(origin) ==
    IF origin = <<>> THEN FALSE
    ELSE \/ origin = T_Apex
         \/ EndsWith(origin, T_SubSuffix) /\ StartsWith(origin, T_Https)

\* cors(request)
cors(request) ==
    LET origin == request.origin
    IN  ("Access-Control-Allow-Origin" :>
             (IF isAllowedOrigin(origin) THEN origin ELSE <<"*">>))
        @@ ("Access-Control-Allow-Methods" :> "GET, POST, OPTIONS")
        @@ ("Access-Control-Allow-Headers" :> "Content-Type, Authorization")

JsonBody(data)  == [kind |-> "json", json |-> data]
StreamBody(key) == [kind |-> "stream", object |-> key]
NoBody          == [kind |-> "none"]

Response(status, headers, body) ==
    [status |-> status, headers |-> headers, body |-> body]

\* A response that wraps what it is given in an envelope.
jsonResponse_Wrapped(data, status, request) ==
    Response(status, cors(request) @@ ("Content-Type" :> "application/json"),
             JsonBody([data |-> data]))

\* jsonResponse(data, status, request), the request given
jsonResponse(data, status, request) ==
    Response(status, cors(request) @@ ("Content-Type" :> "application/json"),
             JsonBody(data))

\* jsonResponse(data, status) with request = null: no CORS headers
jsonResponseNoRequest(data, status) ==
    Response(status, "Content-Type" :> "application/json", JsonBody(data))

\* A preflight answer that the browser may not keep.
handleOptions_NoMaxAge(request) == Response(204, cors(request), NoBody)

\* handleOptions(request)
handleOptions(request) ==
    Response(204, cors(request) @@ ("Access-Control-Max-Age" :> "86400"),
             NoBody)

(***************************************************************************)
(* The two bindings.  PASSWORDS maps a slug to the stored password, the    *)
(* empty text when the key is not set (get returns null, and the worker    *)
(* tests only `!stored`).  FI_FILMS maps the keys that exist to the size   *)
(* of the object.  A get either answers or throws.                         *)
(***************************************************************************)

KvCall(key, threw, result) ==
    [store |-> "PASSWORDS", key |-> key, threw |-> threw, result |-> result]

R2Call(key, threw, result) ==
    [store |-> "FI_FILMS", key |-> key, threw |-> threw, result |-> result]

\* await env.PASSWORDS.get(slug)
PasswordsGet(env, slug) ==
    IF env.kvThrows THEN KvCall(slug, TRUE, <<>>)
    ELSE IF slug \in DOMAIN env.PASSWORDS
    THEN KvCall(slug, FALSE, env.PASSWORDS[slug])
    ELSE KvCall(slug, FALSE, <<>>)

\* await env.FI_FILMS.get(key): <<size>> for an object, <<>> for null
FilmsGet(env, key) ==
    IF env.r2Throws THEN R2Call(key, TRUE, <<>>)
    ELSE IF key \in DOMAIN env.FI_FILMS
    THEN R2Call(key, FALSE, <<env.FI_FILMS[key]>>)
    ELSE R2Call(key, FALSE, <<>>)

(***************************************************************************)
(* Route handlers, lines 49-150.  A handler is an async function: it ends  *)
(* in a response or in a rejection.  calls lists the gets it awaited and   *)
(* minted the token it signed, if any.                                     *)
(***************************************************************************)

Responded(response, calls, minted) ==
    [kind |-> "response", response |-> response, calls |-> calls,
     minted |-> minted]

\* A handler that asks a store again after the store has failed.
Rejected_Twice(calls) ==
    [kind |-> "rejected", response |-> Response(0, <<>>, NoBody),
     calls |-> calls \o calls, minted |-> <<>>]

Rejected(calls) ==
    [kind |-> "rejected", response |-> Response(0, <<>>, NoBody),
     calls |-> calls, minted |-> <<>>]

\* The request body as request.json() sees it: no JSON, the JSON text
\* `null`, on which body.password throws, a number, string, boolean or
\* array, on which body.password is undefined, or an object with its
\* password (the empty text when it has none or an empty one).
BodyUnparseable    == [kind |-> "unparseable", password |-> <<>>]
BodyNull           == [kind |-> "null", password |-> <<>>]
BodyScalar         == [kind |-> "scalar", password |-> <<>>]
BodyObject(passwd) == [kind |-> "object", password |-> passwd]

\* handleAuth(request, env, slug); tExp and tIat are the two clock readings
\* of signJWT.  The function is written as the steps between its awaits.

\* Line 115: token is what signJWT resolved to.
handleAuth_token(request, lookup, token) ==
    Responded(jsonResponse([token |-> token], 200, request), <<lookup>>,
              <<token>>)

\* Lines 110-114 with the test reduced to `!stored`.
handleAuth_stored_AnyPassword(request, env, slug, password, lookup, tExp, tIat) ==
    IF lookup.threw THEN Rejected(<<lookup>>)
    ELSE IF lookup.result = <<>>
    THEN Responded(jsonResponse([error |-> "Invalid password"], 401, request),
                   <<lookup>>, <<>>)
    ELSE handleAuth_token(request, lookup,
                          signJWT(env.crypto, [slug |-> <<slug>>],
                                  env.JWT_SECRET, tExp, tIat))

\* Lines 110-114 with an answer of its own for a slug without a password.
handleAuth_stored_UnknownCouple(request, env, slug, password, lookup, tExp, tIat) ==
    IF lookup.threw THEN Rejected(<<lookup>>)
    ELSE IF lookup.result = <<>>
    THEN Responded(jsonResponse([error |-> "Unknown couple"], 404, request),
                   <<lookup>>, <<>>)
    ELSE IF lookup.result /= password
    THEN Responded(jsonResponse([error |-> "Invalid password"], 401, request),
                   <<lookup>>, <<>>)
    ELSE handleAuth_token(request, lookup,
                          signJWT(env.crypto, [slug |-> <<slug>>],
                                  env.JWT_SECRET, tExp, tIat))

\* Lines 110-114: lookup is the outcome of env.PASSWORDS.get(slug).
handleAuth_stored(request, env, slug, password, lookup, tExp, tIat) ==
    IF lookup.threw THEN Rejected(<<lookup>>)
    ELSE IF lookup.result = <<>> \/ lookup.result /= password
    THEN Responded(jsonResponse([error |-> "Invalid password"], 401, request),
                   <<lookup>>, <<>>)
    ELSE handleAuth_token(request, lookup,
                          signJWT(env.crypto, [slug |-> <<slug>>],
                                  env.JWT_SECRET, tExp, tIat))

\* Lines 97-109.
handleAuth(request, env, slug, tExp, tIat) ==
    LET body == request.body
    IN  IF body.kind = "unparseable"
        THEN Responded(jsonResponse([error |-> "Invalid JSON"], 400, request),
                       <<>>, <<>>)
        ELSE IF body.kind = "null" THEN Rejected(<<>>)
        ELSE IF body.password = <<>>
        THEN Responded(jsonResponse([error |-> "Password required"], 400,
                                    request), <<>>, <<>>)
        ELSE handleAuth_stored(request, env, slug, body.password,
                               PasswordsGet(env, slug), tExp, tIat)

\* `couples/${slug}/originals/${videoId}.mp4`
OriginalKey(slug, videoId) ==
    T_Couples \o <<"/">> \o slug \o <<"/">> \o T_Originals \o <<"/">>
    \o videoId \o T_Mp4

\* handleDownload(request, env, slug, videoId) when the clock reads t,
\* written as the steps between its awaits.

\* Lines 138-149: fetched is the outcome of env.FI_FILMS.get(key).
handleDownload_object(request, key, videoId, fetched) ==
    IF fetched.threw THEN Rejected(<<fetched>>)
    ELSE IF fetched.result = <<>>
    THEN Responded(jsonResponse([error |-> "Not found"], 404, request),
                   <<fetched>>, <<>>)
    ELSE Responded(
             Response(200,
                      cors(request)
                      @@ ("Content-Type" :> "video/mp4")
                      @@ ("Content-Disposition" :>
                              <<"attachment; filename=\"", videoId, ".mp4\"">>)
                      @@ ("Content-Length" :> fetched.result[1]),
                      StreamBody(key)),
             <<fetched>>, <<>>)

\* Lines 127-136 with an answer of its own for a token of another slug.
handleDownload_payload_WrongCouple(request, env, slug, videoId, verified) ==
    IF verified.kind = "throws" THEN Rejected(<<>>)
    ELSE IF verified.kind = "null"
    THEN Responded(jsonResponse([error |-> "Token expired or invalid"], 403,
                                request), <<>>, <<>>)
    ELSE IF verified.payload.slug /= <<slug>>
    THEN Responded(jsonResponse([error |-> "Token is for another couple"],
                                403, request), <<>>, <<>>)
    ELSE handleDownload_object(request, OriginalKey(slug, videoId), videoId,
                               FilmsGet(env, OriginalKey(slug, videoId)))

\* Lines 127-136 for a gateway that takes a token only while its tenant has
\* a password in the store.
handleDownload_payload_Revoking(request, env, slug, videoId, verified) ==
    IF verified.kind = "throws" THEN Rejected(<<>>)
    ELSE IF verified.kind = "null" \/ slug \notin DOMAIN env.PASSWORDS
    THEN Responded(jsonResponse([error |-> "Token expired or invalid"], 403,
                                request), <<>>, <<>>)
    ELSE IF verified.payload.slug /= <<slug>>
    THEN Responded(jsonResponse([error |-> "Token expired or invalid"], 403,
                                request), <<>>, <<>>)
    ELSE handleDownload_object(request, OriginalKey(slug, videoId), videoId,
                               FilmsGet(env, OriginalKey(slug, videoId)))

\* Lines 127-136: verified is what verifyJWT settled to.
handleDownload_payload(request, env, slug, videoId, verified) ==
    IF verified.kind = "throws" THEN Rejected(<<>>)
    ELSE IF verified.kind = "null"
    THEN Responded(jsonResponse([error |-> "Token expired or invalid"], 403,
                                request), <<>>, <<>>)
    ELSE IF verified.payload.slug /= <<slug>>
    THEN Responded(jsonResponse([error |-> "Token expired or invalid"], 403,
                                request), <<>>, <<>>)
    ELSE handleDownload_object(request, OriginalKey(slug, videoId), videoId,
                               FilmsGet(env, OriginalKey(slug, videoId)))

\* Lines 119-125.
handleDownload(request, env, slug, videoId, t) ==
    LET authHeader == request.authorization
    IN  IF authHeader = <<>> \/ ~StartsWith(authHeader, T_Bearer)
        THEN Responded(jsonResponse([error |-> "Authorization required"], 401,
                                    request), <<>>, <<>>)
        ELSE handleDownload_payload(request, env, slug, videoId,
                                    verifyJWT(env.crypto,
                                              Slice(authHeader, 7),
                                              env.JWT_SECRET, t))

\* An extension that is the whole key.
Extension_Whole(key) == key

\* text.toLowerCase(), for the letters A to Z
toLowerCase(text) ==
    Tuple([n \in 1..Len(text) |->
              IF text[n] \in B64Chars /\ B64Val[text[n]] < 26
              THEN B64Alphabet[B64Val[text[n]] + 27] ELSE text[n]])

\* key.split('.').pop().toLowerCase()
Extension(key) ==
    LET parts == Split(key, ".") IN toLowerCase(parts[Len(parts)])

\* handleHLS(request, env, matchedPath)
handleHLS(request, env, matchedPath) ==
    LET key     == Slice(matchedPath, 1)
        fetched == FilmsGet(env, key)
        ext     == Extension(key)
        contentType == IF ext = T_M3u8 THEN "application/vnd.apple.mpegurl"
                       ELSE IF ext = T_Ts THEN "video/MP2T"
                       ELSE "application/octet-stream"
        cacheControl == IF ext = T_M3u8 THEN T_CacheShort ELSE T_CacheLong
    IN  IF fetched.threw THEN Rejected(<<fetched>>)
        ELSE IF fetched.result = <<>>
        THEN Responded(jsonResponse([error |-> "Not found"], 404, request),
                       <<fetched>>, <<>>)
        ELSE Responded(
                 Response(200,
                          cors(request)
                          @@ ("Content-Type" :> contentType)
                          @@ ("Cache-Control" :> cacheControl),
                          StreamBody(key)),
                 <<fetched>>, <<>>)

\* Lines 83-93 of handleThumb: fetched is what env.FI_FILMS.get(key) gave.
handleThumb_object(request, key, fetched) ==
    IF fetched.threw THEN Rejected(<<fetched>>)
    ELSE IF fetched.result = <<>>
    THEN Responded(jsonResponse([error |-> "Not found"], 404, request),
                   <<fetched>>, <<>>)
    ELSE Responded(
             Response(200,
                      cors(request)
                      @@ ("Content-Type" :> "image/jpeg")
                      @@ ("Cache-Control" :> T_CacheLong),
                      StreamBody(key)),
             <<fetched>>, <<>>)

\* A thumbnail handler that wants an Authorization header.
handleThumb_BearerOnly(request, env, matchedPath) ==
    IF request.authorization = <<>>
    THEN Responded(jsonResponse([error |-> "Authorization required"], 401,
                                request), <<>>, <<>>)
    ELSE handleThumb_object(request, Slice(matchedPath, 1),
                            FilmsGet(env, Slice(matchedPath, 1)))

\* handleThumb(request, env, matchedPath)
handleThumb(request, env, matchedPath) ==
    handleThumb_object(request, Slice(matchedPath, 1),
                       FilmsGet(env, Slice(matchedPath, 1)))

(***************************************************************************)
(* The fetch entry point, lines 5-42.                                      *)
(***************************************************************************)

Segments(path) == Split(path, "/")

\* The part the four patterns share: /couples/{slug}/...
UnderCouples(segs) ==
    /\ Len(segs) >= 4
    /\ segs[1] = <<>> /\ segs[2] = T_Couples /\ segs[3] /= <<>>

\* path.match(/^\/couples\/([^/]+)\/auth$/), on the segments of the path
authMatch(segs) ==
    UnderCouples(segs) /\ Len(segs) = 4 /\ segs[4] = T_Auth

\* path.match(/^\/couples\/([^/]+)\/download\/([^/]+)$/)
downloadMatch(segs) ==
    /\ UnderCouples(segs) /\ Len(segs) = 5
    /\ segs[4] = T_Download /\ segs[5] /= <<>>

\* A pattern that lets the part after /hls/ be empty.
hlsMatch_EmptyRest(segs) ==
    UnderCouples(segs) /\ Len(segs) >= 5 /\ segs[4] = T_Hls

\* A pattern that takes whatever follows the slug for a stream.
hlsMatch_AnyKind(segs) ==
    /\ UnderCouples(segs) /\ Len(segs) >= 5
    /\ Len(segs) > 5 \/ segs[5] /= <<>>

\* path.match(/^\/couples\/([^/]+)\/hls\/(.+)$/)
hlsMatch(segs) ==
    /\ UnderCouples(segs) /\ Len(segs) >= 5 /\ segs[4] = T_Hls
    /\ Len(segs) > 5 \/ segs[5] /= <<>>

\* path.match(/^\/couples\/([^/]+)\/thumbs\/([^/]+\.jpg)$/)
thumbMatch(segs) ==
    /\ UnderCouples(segs) /\ Len(segs) = 5 /\ segs[4] = T_Thumbs
    /\ EndsWith(segs[5], T_Jpg) /\ Len(segs[5]) > Len(T_Jpg)

\* fetch(request, env).  A handler is returned, not awaited, inside the try
\* block: the promise it returns settles after the block is left, so the
\* catch clause of line 39 sees only what fetch itself throws synchronously,
\* and a handler that rejects rejects fetch.
fetch(request, env, t, tExp, tIat) ==
    LET path == request.path
        segs == Segments(path)
    IN  IF request.method = "OPTIONS"
        THEN Responded(handleOptions(request), <<>>, <<>>)
        ELSE IF authMatch(segs) /\ request.method = "POST"
        THEN handleAuth(request, env, segs[3], tExp, tIat)
        ELSE IF downloadMatch(segs) /\ request.method = "POST"
        THEN handleDownload(request, env, segs[3], segs[5], t)
        ELSE IF hlsMatch(segs) /\ request.method = "GET"
        THEN handleHLS(request, env, path)
        ELSE IF thumbMatch(segs) /\ request.method = "GET"
        THEN handleThumb(request, env, path)
        ELSE Responded(jsonResponse([error |-> "Not found"], 404, request),
                       <<>>, <<>>)

(***************************************************************************)
(* The gateway in its environment: the clock, the two stores, the tokens   *)
(* handed out so far, and the exchange under observation.  The gateway     *)
(* keeps nothing between requests, so one exchange is followed at a time:  *)
(* a request is handled, its outcome is looked at, and it is delivered     *)
(* before the environment moves on.                                        *)
(***************************************************************************)

\* Bounds of the model.
MaxDays   == 1
MaxIssued == 1

Slugs     == {<<"a", "b">>, <<"c", "d">>}
VideoIds  == {<<"v", "1">>}
Passwords == {<<"p", "1">>, <<"p", "2">>}
Origins   == {<<>>, T_Apex}

\* env.JWT_SECRET, set with `wrangler secret put`, and a secret that is not it.
JWT_SECRET  == <<"k">>
OtherSecret == <<"x">>

\* The clock moves by a second or by a day; the model follows it from its
\* start through the first second after each of MaxDays days.
TickSteps == {1, TokenTtl}

ClockInRange(t) ==
    t \div TokenTtl <= MaxDays /\ t % TokenTtl <= 1

\* The tenant whose password the operator changes.
Rotated == {<<"a", "b">>}

VARIABLES
    now,        \* Math.floor(Date.now() / 1000)
    PASSWORDS,  \* the KV namespace: slug -> password
    FI_FILMS,   \* the R2 bucket: key -> size
    issued,     \* the tokens minted so far, with tenant and time of minting
    crypto,     \* what crypto.subtle has signed so far
    last,       \* the exchange under observation
    probe,      \* a token taken through signJWT and verifyJWT directly
    sw,         \* the page's service worker and the caches of its origin
    upload      \* a run of the upload script

vars == <<now, PASSWORDS, FI_FILMS, issued, crypto, last, probe, sw, upload>>

Path(segs) == <<"/">> \o Join(segs, "/")

Request(method, path, authorization, origin, body) ==
    [method |-> method, path |-> path, authorization |-> authorization,
     origin |-> origin, body |-> body]

Env(kvThrows, r2Throws) ==
    [PASSWORDS |-> PASSWORDS, FI_FILMS |-> FI_FILMS,
     JWT_SECRET |-> JWT_SECRET, crypto |-> crypto, kvThrows |-> kvThrows,
     r2Throws |-> r2Throws]

NoRequest == Request("NONE", <<>>, <<>>, <<>>, BodyUnparseable)

Idle == [request |-> NoRequest, kvThrows |-> FALSE, r2Throws |-> FALSE,
         t |-> 0,
         outcome |-> [kind |-> "none", response |-> Response(0, <<>>, NoBody),
                      calls |-> <<>>, minted |-> <<>>]]

\* What upload puts next to the original of a film: the master playlist, the
\* segments of each quality, one directory further down, and the thumbnail.
T_Master  == <<"m", "a", "s", "t", "e", "r", ".", "m", "3", "u", "8">>
T_Quality == <<"1", "0", "8", "0", "p">>
T_Segment == <<"s", "e", "g", "m", "e", "n", "t", "0", "0", "0", ".", "t", "s">>
T_Thumb   == <<"v", "1", ".", "j", "p", "g">>

PlaylistKey(slug) == Join(<<T_Couples, slug, T_Hls, <<"v", "1">>, T_Master>>, "/")

SegmentKey(slug) ==
    Join(<<T_Couples, slug, T_Hls, <<"v", "1">>, T_Quality, T_Segment>>, "/")

ThumbKey(slug) == Join(<<T_Couples, slug, T_Thumbs, T_Thumb>>, "/")

\* No token has been signed yet.
(***************************************************************************)
(* The page's service worker, lines 277-364.  A URL is its hostname and    *)
(* its pathname, a cache maps the URLs of the GET requests it holds to the *)
(* status of the stored response, and caches maps the names of the caches  *)
(* of the origin to them.                                                  *)
(***************************************************************************)

CACHE_NAME == "fi-shell-v1"

\* A cache that an earlier worker of the page left behind.
OldCache == "fi-shell-v0"

PageHost == "page"
CdnHost  == "cdn.vidstack.io"

Url(hostname, pathname) == [hostname |-> hostname, pathname |-> pathname]

\* './' is resolved against the worker's own URL, the root of the page.
SHELL_ASSETS ==
    <<Url(PageHost, <<"/">>),
      Url(CdnHost, <<"/", "p", "l", "a", "y", "e", "r", "/", "t", "h", "e", "m", "e", ".", "c", "s", "s">>),
      Url(CdnHost, <<"/", "p", "l", "a", "y", "e", "r", "/", "v", "i", "d", "e", "o", ".", "c", "s", "s">>),
      Url(CdnHost, <<"/", "p", "l", "a", "y", "e", "r">>)>>

Range(f) == {f[i] : i \in DOMAIN f}

SwRequest(method, url) == [method |-> method, url |-> url]

NoEvent ==
    [request |-> SwRequest("NONE", Url("", <<>>)), network |-> 0,
     consulted |-> FALSE, fetched |-> FALSE,
     answer |-> [kind |-> "none", source |-> "none", status |-> 0]]

NoWorker ==
    [state |-> "parsed",
     caches |-> (OldCache :> (Url(PageHost, <<"/">>) :> 200)),
     pending |-> {}, event |-> NoEvent]

\* String.prototype.includes
includes(s, p) ==
    \E i \in 1..(Len(s) - Len(p) + 1) : SubSeq(s, i, i + Len(p) - 1) = p

\* response.ok
ok(status) == status \in 200..299

\* What fetch(event.request) settles to: 0 stands for a rejected fetch,
\* any other number for a response of that status.
FromNetwork(network) ==
    IF network = 0 THEN [kind |-> "error", source |-> "network", status |-> 0]
    ELSE [kind |-> "response", source |-> "network", status |-> network]

FromCache(status) ==
    [kind |-> "response", source |-> "cache", status |-> status]

\* caches.match(request): the stored response of the first cache that holds
\* the URL, <<>> for undefined; a request that is not a GET matches nothing.
CachesMatch(caches, request) ==
    LET holding == {name \in DOMAIN caches :
                        request.url \in DOMAIN caches[name]}
    IN  IF request.method /= "GET" \/ holding = {} THEN <<>>
        ELSE IF OldCache \in holding THEN <<caches[OldCache][request.url]>>
        ELSE <<caches[CHOOSE name \in holding : TRUE][request.url]>>

\* The entries of the cache called name, which caches.open makes if it is
\* not there.
Opened(caches, name) ==
    IF name \in DOMAIN caches THEN caches[name] ELSE [u \in {} |-> 0]

Stored(cache, url, status) ==
    [u \in DOMAIN cache \cup {url} |-> IF u = url THEN status ELSE cache[u]]

WithCache(caches, name, cache) ==
    [k \in DOMAIN caches \cup {name} |->
         IF k = name THEN cache ELSE caches[k]]

\* The install listener, lines 285-290: failing are the shell assets the
\* network does not give with an ok status.  cache.addAll stores all of
\* them or none, and a worker whose install fails is thrown away; the
\* page registers the script again the next time it loads.
Install ==
    /\ sw.state \in {"parsed", "redundant"}
    /\ \E failing \in SUBSET Range(SHELL_ASSETS) :
          LET cache == Opened(sw.caches, CACHE_NAME)
              added == [u \in DOMAIN cache \cup Range(SHELL_ASSETS) |->
                            IF u \in Range(SHELL_ASSETS) THEN 200
                            ELSE cache[u]]
          IN  sw' = [sw EXCEPT
                        !.state = IF failing = {} THEN "installed"
                                  ELSE "redundant",
                        !.caches = WithCache(sw.caches, CACHE_NAME,
                                             IF failing = {} THEN added
                                             ELSE cache)]
    /\ UNCHANGED <<now, PASSWORDS, FI_FILMS, issued, crypto, last, probe, upload>>

\* The activate listener, lines 292-303; self.skipWaiting() of line 289
\* lets it follow the install at once.
Activate ==
    /\ sw.state = "installed"
    /\ sw' = [sw EXCEPT
                 !.state = "activated",
                 !.caches = [k \in DOMAIN sw.caches \cap {CACHE_NAME} |->
                                 sw.caches[k]]]
    /\ UNCHANGED <<now, PASSWORDS, FI_FILMS, issued, crypto, last, probe, upload>>

\* A branch that passes playlists on to the caching branches.
isStreaming_SegmentsOnly(url) == EndsWith(url.pathname, <<".", "t", "s">>)

\* url.pathname.endsWith('.ts') || url.pathname.endsWith('.m3u8'), line 309
isStreaming(url) ==
    EndsWith(url.pathname, <<".", "t", "s">>) \/ EndsWith(url.pathname, <<".", "m", "3", "u", "8">>)

\* Line 315, and lines 332-336.
isCacheFirst(url) ==
    \/ includes(url.pathname, <<"/", "t", "h", "u", "m", "b", "s", "/">>)
    \/ url.hostname \in {"fonts.googleapis.com", "fonts.gstatic.com",
                         "cdn.vidstack.io"}

\* What a fetch event comes to: whether caches.match was called, whether
\* the network was asked, the answer given to respondWith, and the
\* cache.put calls set off without being awaited.
Handled(request, network, consulted, fetched, answer, puts) ==
    [event |-> [request |-> request, network |-> network,
                consulted |-> consulted, fetched |-> fetched,
                answer |-> answer],
     puts |-> puts]

Put(request, status) == [request |-> request, status |-> status]

\* Lines 310-311.
networkOnly(request, network) ==
    Handled(request, network, FALSE, TRUE, FromNetwork(network), {})

\* A cache-first branch that keeps whatever the network gives.
cacheFirst_KeepsAll(caches, request, network) ==
    LET cached == CachesMatch(caches, request)
    IN  IF cached /= <<>>
        THEN Handled(request, network, TRUE, FALSE, FromCache(cached[1]), {})
        ELSE Handled(request, network, TRUE, TRUE, FromNetwork(network),
                     IF network /= 0 THEN {Put(request, network)} ELSE {})

\* Lines 316-328 and 337-349.
cacheFirst(caches, request, network) ==
    LET cached == CachesMatch(caches, request)
    IN  IF cached /= <<>>
        THEN Handled(request, network, TRUE, FALSE, FromCache(cached[1]), {})
        ELSE Handled(request, network, TRUE, TRUE, FromNetwork(network),
                     IF network /= 0 /\ ok(network)
                     THEN {Put(request, network)} ELSE {})

\* A network-first branch that falls back on the cache also when the
\* network answers with an error status.
networkFirst_FallbackOnStatus(caches, request, network) ==
    LET cached == CachesMatch(caches, request)
    IN  IF network /= 0 /\ ok(network)
        THEN Handled(request, network, FALSE, TRUE, FromNetwork(network),
                     IF request.method = "GET"
                     THEN {Put(request, network)} ELSE {})
        ELSE Handled(request, network, TRUE, TRUE,
                     IF cached /= <<>> THEN FromCache(cached[1])
                     ELSE FromNetwork(network), {})

\* Lines 353-363.  respondWith given undefined is a network error.
networkFirst(caches, request, network) ==
    LET cached == CachesMatch(caches, request)
    IN  IF network /= 0
        THEN Handled(request, network, FALSE, TRUE, FromNetwork(network),
                     IF ok(network) /\ request.method = "GET"
                     THEN {Put(request, network)} ELSE {})
        ELSE Handled(request, network, TRUE, TRUE,
                     IF cached /= <<>> THEN FromCache(cached[1])
                     ELSE [kind |-> "error", source |-> "cache",
                           status |-> 0], {})

\* The fetch listener, lines 305-364.
onfetch(caches, request, network) ==
    IF isStreaming(request.url) THEN networkOnly(request, network)
    ELSE IF isCacheFirst(request.url)
    THEN cacheFirst(caches, request, network)
    ELSE networkFirst(caches, request, network)

\* The URLs the page asks for: its shell, a playlist, a segment, a
\* thumbnail, a path that is both under /thumbs/ and a segment, the login
\* route, and on the CDN hosts a shell asset, a font and a playlist.
SwUrls ==
    {Url(PageHost, <<"/">>),
     Url(PageHost, <<"/", "c", "o", "u", "p", "l", "e", "s", "/", "a", "b", "/", "h", "l", "s", "/", "v", "1", "/", "m", "a", "s", "t", "e", "r", ".", "m", "3", "u", "8">>),
     Url(PageHost, <<"/", "c", "o", "u", "p", "l", "e", "s", "/", "a", "b", "/", "h", "l", "s", "/", "v", "1", "/", "s", "e", "g", "0", ".", "t", "s">>),
     Url(PageHost, <<"/", "c", "o", "u", "p", "l", "e", "s", "/", "a", "b", "/", "t", "h", "u", "m", "b", "s", "/", "v", "1", ".", "j", "p", "g">>),
     Url(PageHost, <<"/", "t", "h", "u", "m", "b", "s", "/", "x", ".", "t", "s">>),
     Url(PageHost, <<"/", "c", "o", "u", "p", "l", "e", "s", "/", "a", "b", "/", "a", "u", "t", "h">>),
     Url(CdnHost, <<"/", "p", "l", "a", "y", "e", "r", "/", "t", "h", "e", "m", "e", ".", "c", "s", "s">>),
     Url("fonts.gstatic.com", <<"/", "s", "/", "f", ".", "w", "o", "f", "f", "2">>),
     Url(CdnHost, <<"/", "l", "i", "v", "e", ".", "m", "3", "u", "8">>)}

SwRequests ==
    {SwRequest("GET", u) : u \in SwUrls}
    \cup {SwRequest("POST", u) :
              u \in {Url(PageHost, <<"/", "c", "o", "u", "p", "l", "e", "s", "/", "a", "b", "/", "a", "u", "t", "h">>),
                     Url(PageHost, <<"/", "c", "o", "u", "p", "l", "e", "s", "/", "a", "b", "/", "t", "h", "u", "m", "b", "s", "/", "v", "1", ".", "j", "p", "g">>)}}

\* A rejected fetch, an ok response and a response that is not ok.
NetworkOutcomes == {0, 200, 404}

\* A fetch event of the activated worker.
FetchEvent ==
    /\ sw.state = "activated"
    /\ \E request \in SwRequests, network \in NetworkOutcomes :
          LET handled == onfetch(sw.caches, request, network)
          IN  sw' = [sw EXCEPT !.event = handled.event,
                               !.pending = sw.pending \cup handled.puts]
    /\ UNCHANGED <<now, PASSWORDS, FI_FILMS, issued, crypto, last, probe, upload>>

\* caches.open(CACHE_NAME).then((cache) => cache.put(event.request, clone))
\* runs to its end: cache.put rejects for a request that is not a GET, and
\* otherwise stores the response unless the storage refuses it.
PutSettles ==
    /\ sw.pending /= {}
    /\ \E p \in sw.pending, refused \in BOOLEAN :
          LET cache == Opened(sw.caches, CACHE_NAME)
          IN  sw' = [sw EXCEPT
                        !.pending = sw.pending \ {p},
                        !.caches =
                            WithCache(sw.caches, CACHE_NAME,
                                      IF p.request.method /= "GET" \/ refused
                                      THEN cache
                                      ELSE Stored(cache, p.request.url,
                                                  p.status))]
    /\ UNCHANGED <<now, PASSWORDS, FI_FILMS, issued, crypto, last, probe, upload>>

(***************************************************************************)
(* The upload script, src/unnamed/part_000, from line 77 on: the flags     *)
(* has_errors and verify_failed, the place the run has come to, the        *)
(* rclone commands it has run and those that failed, and how it ended.     *)
(* The script runs under `set -euo pipefail` (line 13).                    *)
(***************************************************************************)

\* The three parts of a delivery, in the order the script takes them.
Parts == <<"hls", "originals", "thumbs">>

\* What an rclone command ends with: 0, or the status of an error.
RcloneStatuses == {0, 1, 3}

NoRun ==
    [stage |-> "none", part |-> 1, thumbs |-> FALSE, has_errors |-> FALSE,
     verify_failed |-> FALSE, attempted |-> {}, failed |-> {},
     exit |-> <<>>, said |-> "none"]

\* The place after part n of a stage: the next part, or the next stage.
After(run, stage, following) ==
    IF run.part < Len(Parts)
    THEN [run EXCEPT !.stage = stage, !.part = run.part + 1]
    ELSE [run EXCEPT !.stage = following, !.part = 1]

\* Line 77; thumbs tells whether $OUTPUT_DIR/thumbs is a directory.
StartRun ==
    /\ upload.stage = "none"
    /\ \E thumbs \in BOOLEAN :
          upload' = [NoRun EXCEPT !.stage = "sync", !.thumbs = thumbs]
    /\ UNCHANGED <<now, PASSWORDS, FI_FILMS, issued, crypto, last, probe, sw>>

\* Lines 80-109: `if rclone sync ...; then ... else has_errors=true; fi`,
\* for the thumbnails only if the directory is there.
Sync ==
    /\ upload.stage = "sync"
    /\ LET step == <<"sync", Parts[upload.part]>>
       IN  IF Parts[upload.part] = "thumbs" /\ ~upload.thumbs
           THEN upload' = After(upload, "sync", "check")
           ELSE \E status \in RcloneStatuses :
                   upload' =
                       After([upload EXCEPT
                                 !.attempted = @ \cup {step},
                                 !.failed = IF status = 0 THEN @
                                            ELSE @ \cup {step},
                                 !.has_errors = @ \/ status /= 0],
                             "sync", "check")
    /\ UNCHANGED <<now, PASSWORDS, FI_FILMS, issued, crypto, last, probe, sw>>

\* Lines 115-139: `if ! rclone check ...; then verify_failed=true; fi`,
\* and after the last of them has_errors=true if verify_failed.
Check ==
    /\ upload.stage = "check"
    /\ LET step == <<"check", Parts[upload.part]>>
           verdict(run) ==
               IF run.stage = "size"
               THEN [run EXCEPT !.has_errors = @ \/ run.verify_failed]
               ELSE run
       IN  IF Parts[upload.part] = "thumbs" /\ ~upload.thumbs
           THEN upload' = verdict(After(upload, "check", "size"))
           ELSE \E status \in RcloneStatuses :
                   upload' =
                       verdict(After([upload EXCEPT
                                         !.attempted = @ \cup {step},
                                         !.failed = IF status = 0 THEN @
                                                    ELSE @ \cup {step},
                                         !.verify_failed = @ \/ status /= 0],
                                     "check", "size"))
    /\ UNCHANGED <<now, PASSWORDS, FI_FILMS, issued, crypto, last, probe, sw>>

\* Lines 145-152: `rclone size ... 2>&1 | sed 's/^/  /'`, a plain command:
\* under pipefail the pipeline fails when rclone does, and under errexit
\* the script ends there with that status.
Size ==
    /\ upload.stage = "size"
    /\ \E status \in RcloneStatuses :
          upload' = IF status = 0 THEN After(upload, "size", "finish")
                    ELSE [upload EXCEPT !.stage = "done",
                                        !.exit = <<status>>]
    /\ UNCHANGED <<now, PASSWORDS, FI_FILMS, issued, crypto, last, probe, sw>>

\* Lines 156-161.
Finish ==
    /\ upload.stage = "finish"
    /\ upload' = IF upload.has_errors
                 THEN [upload EXCEPT !.stage = "done", !.said = "errors",
                                     !.exit = <<1>>]
                 ELSE [upload EXCEPT !.stage = "done", !.said = "success",
                                     !.exit = <<0>>]
    /\ UNCHANGED <<now, PASSWORDS, FI_FILMS, issued, crypto, last, probe, sw>>

NoProbe == [phase |-> "none", slug |-> <<>>, secret |-> <<>>, tExp |-> 0,
            tIat |-> 0, exp |-> <<>>, token |-> <<>>, presented |-> <<>>,
            with |-> <<>>, t |-> 0, result |-> Null]

Init ==
    /\ now = 0
    /\ PASSWORDS = [s \in Slugs |-> IF s = <<"a", "b">> THEN <<"p", "1">>
                                    ELSE <<"p", "2">>]
    /\ FI_FILMS = (OriginalKey(<<"a", "b">>, <<"v", "1">>) :> 7)
                  @@ (PlaylistKey(<<"a", "b">>) :> 3)
                  @@ (SegmentKey(<<"a", "b">>) :> 5)
                  @@ (ThumbKey(<<"a", "b">>) :> 2)
    /\ issued = {}
    /\ crypto = <<>>
    /\ last = Idle
    /\ probe = NoProbe
    /\ sw = NoWorker
    /\ upload = NoRun

\* Time passes.
Tick ==
    /\ last = Idle
    /\ \E d \in TickSteps :
          /\ ClockInRange(now + d)
          /\ now' = now + d
    /\ UNCHANGED <<PASSWORDS, FI_FILMS, issued, crypto, last, probe, sw, upload>>

\* An operator sets a password (`wrangler kv:key put --binding=PASSWORDS`).
KvPut ==
    /\ last = Idle
    /\ \E s \in Rotated, p \in Passwords :
          /\ (IF s \in DOMAIN PASSWORDS THEN PASSWORDS[s] ELSE <<>>) /= p
          /\ PASSWORDS' = [k \in DOMAIN PASSWORDS \cup {s} |->
                              IF k = s THEN p ELSE PASSWORDS[k]]
    /\ UNCHANGED <<now, FI_FILMS, issued, crypto, last, probe, sw, upload>>

\* An operator removes a password.
KvDelete ==
    /\ last = Idle
    /\ \E s \in Rotated \cap DOMAIN PASSWORDS :
          PASSWORDS' = [k \in DOMAIN PASSWORDS \ {s} |-> PASSWORDS[k]]
    /\ UNCHANGED <<now, FI_FILMS, issued, crypto, last, probe, sw, upload>>

\* A gateway that uses a password up: the password of a tenant is removed
\* from the store when a token is minted for it.
Settle_Consuming(request, kvThrows, r2Throws, tIat, outcome) ==
    /\ kvThrows => \E k \in 1..Len(outcome.calls) :
                       outcome.calls[k].store = "PASSWORDS"
    /\ r2Throws => \E k \in 1..Len(outcome.calls) :
                       outcome.calls[k].store = "FI_FILMS"
    /\ IF outcome.minted = <<>> THEN tIat = now
       ELSE Cardinality(issued) < MaxIssued
    /\ last' = [request |-> request, kvThrows |-> kvThrows,
                r2Throws |-> r2Throws, t |-> now, outcome |-> outcome]
    /\ issued' = IF outcome.minted = <<>> THEN issued
                 ELSE issued \cup {[token |-> outcome.minted[1],
                                    slug |-> Segments(request.path)[3],
                                    at |-> tIat,
                                    exp |-> now + TokenTtl]}
    /\ crypto' = IF outcome.minted = <<>> THEN crypto
                 ELSE Signed(crypto, JWT_SECRET,
                             SigningInput(outcome.minted[1]))
    /\ now' = tIat
    /\ PASSWORDS' = IF outcome.minted = <<>> THEN PASSWORDS
                    ELSE [k \in DOMAIN PASSWORDS
                                \ {Segments(request.path)[3]} |->
                             PASSWORDS[k]]
    /\ UNCHANGED <<FI_FILMS, probe, sw, upload>>

\* The exchange is recorded: outcome is what fetch settled to.  A store
\* fails only if it is asked, a token that was minted is remembered with its
\* tenant and times, and the stores are only read.
Settle(request, kvThrows, r2Throws, tIat, outcome) ==
    /\ kvThrows => \E k \in 1..Len(outcome.calls) :
                       outcome.calls[k].store = "PASSWORDS"
    /\ r2Throws => \E k \in 1..Len(outcome.calls) :
                       outcome.calls[k].store = "FI_FILMS"
    /\ IF outcome.minted = <<>> THEN tIat = now
       ELSE Cardinality(issued) < MaxIssued
    /\ last' = [request |-> request, kvThrows |-> kvThrows,
                r2Throws |-> r2Throws, t |-> now, outcome |-> outcome]
    /\ issued' = IF outcome.minted = <<>> THEN issued
                 ELSE issued \cup {[token |-> outcome.minted[1],
                                    slug |-> Segments(request.path)[3],
                                    at |-> tIat,
                                    exp |-> now + TokenTtl]}
    /\ crypto' = IF outcome.minted = <<>> THEN crypto
                 ELSE Signed(crypto, JWT_SECRET,
                             SigningInput(outcome.minted[1]))
    /\ now' = tIat
    /\ UNCHANGED <<PASSWORDS, FI_FILMS, probe, sw, upload>>

\* One request through fetch.  The clock may move on between the two
\* readings signJWT takes.
Handle(request, kvThrows, r2Throws, tIat) ==
    /\ last = Idle
    /\ Settle(request, kvThrows, r2Throws, tIat,
              fetch(request, Env(kvThrows, r2Throws), now, now, tIat))

\* The response, or the failure, reaches the client.
Deliver ==
    /\ last /= Idle
    /\ last' = Idle
    /\ UNCHANGED <<now, PASSWORDS, FI_FILMS, issued, crypto, probe, sw, upload>>

ClockReadings == {t \in {now, now + 1} : ClockInRange(t)}

AuthBodies ==
    {BodyUnparseable, BodyNull, BodyScalar, BodyObject(<<>>)}
    \cup {BodyObject(p) : p \in Passwords}

\* POST /couples/{slug}/auth
AuthRequest ==
    /\ last = Idle
    /\ \E s \in Slugs, o \in Origins, kvThrows \in BOOLEAN,
          b \in AuthBodies, tIat \in ClockReadings :
           Handle(Request("POST", Path(<<T_Couples, s, T_Auth>>), <<>>, o, b),
                  kvThrows, FALSE, tIat)

\* header.payload.signature with the payload replaced and the rest kept
WithPayload(token, claims) ==
    LET parts == Split(token, ".")
    IN  parts[1] \o <<".">> \o base64urlEncode(StringifyPayload(claims))
        \o <<".">> \o parts[3]

OtherSlug(s) == CHOOSE o \in Slugs : o /= s

\* What a client can put after `Bearer `: a token it was given, such a token
\* with the tenant and the expiry rewritten, a token it signs with a secret
\* of its own, and text that is no token.
Presentable ==
    {i.token : i \in issued}
    \cup {WithPayload(i.token, Claims(<<OtherSlug(i.slug)>>, <<i.at>>,
                                      <<i.at + 2 * TokenTtl>>)) : i \in issued}
    \cup {signJWT(crypto, [slug |-> <<s>>], OtherSecret, now, now) :
             s \in Rotated}
    \cup {<<"e", "y">>, <<"e", ".", "y", ".", "Q", "Q">>,
          <<"e", ".", "y", ".", "!">>}

AuthorizationHeaders ==
    {<<>>, <<"B", "a", "s", "i", "c", " ", "e", "y">>}
    \cup {T_Bearer \o tok : tok \in Presentable}

\* POST /couples/{slug}/download/{videoId}
DownloadRequest ==
    /\ last = Idle
    /\ \E a \in AuthorizationHeaders, s \in Slugs, v \in VideoIds,
          o \in Origins, r2Throws \in BOOLEAN :
           Handle(Request("POST", Path(<<T_Couples, s, T_Download, v>>), a, o,
                          BodyUnparseable),
                  FALSE, r2Throws, now)

\* What a client may send along with a request that needs no token: nothing,
\* text that is no token, or a token it was given, live or run out.
PublicAuthorizations ==
    {<<>>, T_Bearer \o <<"e", ".", "y", ".", "!">>}
    \cup {T_Bearer \o i.token : i \in issued}

\* GET /couples/{slug}/hls/{videoId}/...
StreamRequest ==
    /\ last = Idle
    /\ \E s \in Slugs :
          \E k \in {PlaylistKey(s), SegmentKey(s)} :
              \/ \E o \in Origins, a \in PublicAuthorizations :
                     Handle(Request("GET", <<"/">> \o k, a, o,
                                    BodyUnparseable),
                            FALSE, FALSE, now)
              \/ Handle(Request("GET", <<"/">> \o k, <<>>, <<>>,
                                BodyUnparseable),
                        FALSE, TRUE, now)

\* GET /couples/{slug}/thumbs/{videoId}.jpg
ThumbRequest ==
    /\ last = Idle
    /\ \E s \in Slugs :
          \/ \E o \in Origins, a \in PublicAuthorizations :
                 Handle(Request("GET", <<"/">> \o ThumbKey(s), a, o,
                                BodyUnparseable),
                        FALSE, FALSE, now)
          \/ Handle(Request("GET", <<"/">> \o ThumbKey(s), <<>>, <<>>,
                            BodyUnparseable),
                    FALSE, TRUE, now)

\* new URL(request.url).pathname for the path as the client wrote it: the
\* URL parser drops the segments ".", "%2e" and takes back a segment for
\* "..", ".%2e", "%2e.", "%2e%2e" (in either case); when such a segment is
\* the last one the path ends in a slash.  Other escapes, %2F among them,
\* stay as they are written.
RECURSIVE RemoveDotSegments(_, _, _)
RemoveDotSegments(segs, k, acc) ==
    IF k > Len(segs) THEN acc
    ELSE IF toLowerCase(segs[k])
               \in {<<".", ".">>, <<".", "%", "2", "e">>,
                    <<"%", "2", "e", ".">>, <<"%", "2", "e", "%", "2", "e">>}
    THEN RemoveDotSegments(segs, k + 1,
             SubSeq(acc, 1, Len(acc) - 1)
             \o (IF k = Len(segs) THEN <<<<>>>> ELSE <<>>))
    ELSE IF toLowerCase(segs[k]) \in {<<".">>, <<"%", "2", "e">>}
    THEN RemoveDotSegments(segs, k + 1,
             acc \o (IF k = Len(segs) THEN <<<<>>>> ELSE <<>>))
    ELSE RemoveDotSegments(segs, k + 1, Append(acc, segs[k]))

UrlPathname(raw) == Path(RemoveDotSegments(Split(raw, "/"), 2, <<>>))

\* Paths written to reach an original through the public routes: with dot
\* segments, plain and escaped, with escaped slashes, with a single dot,
\* and with a directory named originals below hls/.
RawPaths ==
    {<<"/">> \o Join(<<T_Couples, <<"a", "b">>, T_Hls, <<".", ".">>,
                       T_Originals, <<"v", "1">> \o T_Mp4>>, "/"),
     <<"/">> \o Join(<<T_Couples, <<"a", "b">>, T_Hls,
                       <<"%", "2", "E", "%", "2", "e">>,
                       T_Originals, <<"v", "1">> \o T_Mp4>>, "/"),
     <<"/">> \o Join(<<T_Couples, <<"a", "b">>, T_Hls,
                       <<".", ".", "%", "2", "F">> \o T_Originals
                       \o <<"%", "2", "F", "v", "1">> \o T_Mp4>>, "/"),
     <<"/">> \o Join(<<T_Couples, <<"a", "b">>, T_Thumbs,
                       <<".", ".", "%", "2", "F">> \o T_Originals
                       \o <<"%", "2", "F", "v", "1">> \o T_Mp4 \o T_Jpg>>,
                     "/"),
     <<"/">> \o Join(<<T_Couples, <<"a", "b">>, T_Hls, <<"v", "1">>, <<".">>,
                       T_Master>>, "/"),
     <<"/">> \o Join(<<T_Couples, <<"a", "b">>, T_Hls, T_Originals,
                       <<"v", "1">> \o T_Mp4>>, "/")}

\* GET of such a path, as fetch sees it after the URL is parsed.
TraversalRequest ==
    /\ last = Idle
    /\ \E raw \in RawPaths :
          Handle(Request("GET", UrlPathname(raw), <<>>, <<>>,
                         BodyUnparseable),
                 FALSE, FALSE, now)

\* The Origin headers of a preflight: none, the site, a subdomain of it, a
\* subdomain of a subdomain, and origins that only look like the site.
OriginsWide ==
    {<<>>, T_Apex,
     <<"h", "t", "t", "p", "s", ":", "/", "/", "w", "w", "w", ".", "f", "l", "y", "i", "n", "i", "r", "i", "s", ".", "c", "o", "m">>,
     <<"h", "t", "t", "p", "s", ":", "/", "/", "a", ".", "b", ".", "f", "l", "y", "i", "n", "i", "r", "i", "s", ".", "c", "o", "m">>,
     <<"h", "t", "t", "p", ":", "/", "/", "w", "w", "w", ".", "f", "l", "y", "i", "n", "i", "r", "i", "s", ".", "c", "o", "m">>,
     <<"h", "t", "t", "p", "s", ":", "/", "/", "e", "v", "i", "l", "f", "l", "y", "i", "n", "i", "r", "i", "s", ".", "c", "o", "m">>,
     <<"h", "t", "t", "p", "s", ":", "/", "/", "f", "l", "y", "i", "n", "i", "r", "i", "s", ".", "c", "o", "m", ".", "e", "v", "i", "l", ".", "i", "o">>,
     <<"h", "t", "t", "p", ":", "/", "/", "f", "l", "y", "i", "n", "i", "r", "i", "s", ".", "c", "o", "m">>}

\* Paths the router knows and paths it does not know, among them the four
\* routes without the /couples prefix.
Paths ==
    {Path(<<T_Couples, <<"a", "b">>, T_Auth>>),
     Path(<<T_Couples, <<"a", "b">>, T_Download, <<"v", "1">>>>),
     <<"/">> \o PlaylistKey(<<"a", "b">>),
     <<"/">> \o SegmentKey(<<"a", "b">>),
     <<"/">> \o ThumbKey(<<"a", "b">>),
     <<"/">>,
     Path(<<<<"a", "b">>, T_Auth>>),
     Path(<<<<"a", "b">>, T_Download, <<"v", "1">>>>),
     Path(<<<<"a", "b">>, T_Hls, <<"v", "1">>, T_Master>>),
     Path(<<<<"a", "b">>, T_Thumbs, T_Thumb>>),
     Path(<<T_Couples, <<"a", "b">>, <<"u", "n", "k", "n", "o", "w", "n">>>>),
     Path(<<T_Couples, <<"a", "b">>, T_Auth, <<>>>>),
     Path(<<T_Couples, <<"a", "b">>, T_Hls, <<>>>>),
     Path(<<T_Couples, <<"a", "b">>, T_Thumbs, T_Jpg>>),
     Path(<<T_Couples, <<"a", "b">>, T_Thumbs, <<"v", "1">>, T_Thumb>>)}

Methods == {"GET", "POST", "PUT"}

\* OPTIONS on a path the router knows, on the root and on a path it does
\* not know, from any origin.
OptionsRequest ==
    /\ last = Idle
    /\ \E p \in {Path(<<T_Couples, <<"a", "b">>, T_Auth>>), <<"/">>,
                 Path(<<<<"a", "b">>, T_Auth>>)} :
          \E o \in OriginsWide :
              Handle(Request("OPTIONS", p, <<>>, o, BodyUnparseable), FALSE,
                     FALSE, now)

\* Any method on any path, with no token, no body and no Origin.
PlainRequest ==
    /\ last = Idle
    /\ \E m \in Methods, p \in Paths :
          Handle(Request(m, p, <<>>, <<>>, BodyUnparseable), FALSE, FALSE,
                 now)

Next ==
    \/ Tick \/ KvPut \/ KvDelete \/ Deliver
    \/ AuthRequest \/ DownloadRequest \/ StreamRequest \/ ThumbRequest
    \/ OptionsRequest \/ PlainRequest \/ TraversalRequest

Spec == Init /\ [][Next]_vars

(***************************************************************************)
(* signJWT and verifyJWT on their own: a token is signed for a tenant      *)
(* under some secret, one character of it may be changed, another party    *)
(* may sign the same text under its own secret, time passes, and the       *)
(* token is verified under some secret.                                    *)
(***************************************************************************)

Secrets == {JWT_SECRET, OtherSecret}

\* signJWT({ slug }, secret), the clock read as tExp and then as tIat
ProbeSign ==
    /\ probe.phase = "none"
    /\ \E s \in Slugs, secret \in Secrets, tIat \in ClockReadings :
          LET token == signJWT(crypto, [slug |-> <<s>>], secret, now, tIat)
          IN  /\ probe' = [NoProbe EXCEPT !.phase = "signed", !.slug = s,
                                          !.secret = secret, !.tExp = now,
                                          !.tIat = tIat, !.token = token,
                                          !.presented = token]
              /\ crypto' = Signed(crypto, secret, SigningInput(token))
              /\ now' = tIat
    /\ UNCHANGED <<PASSWORDS, FI_FILMS, issued, last, sw, upload>>

\* The expires-at of a payload that signJWT would not write: none, and 0.
ForgedExps == {<<>>, <<0>>}

\* The holder of a secret signs, without signJWT, a payload that has no exp
\* or has exp 0; verifyJWT takes any text signed under its secret.
ProbeForge ==
    /\ probe.phase = "none"
    /\ \E s \in Slugs, secret \in Secrets, exp \in ForgedExps :
          LET signingInput ==
                  EncodedJwtHeader \o <<".">>
                  \o base64urlEncode(StringifyPayload(
                         Claims(<<s>>, <<now>>, exp)))
              token == signingInput \o <<".">>
                       \o base64urlEncodeBytes(Hmac(crypto, secret,
                                                    signingInput))
          IN  /\ probe' = [NoProbe EXCEPT !.phase = "forged", !.slug = s,
                                          !.secret = secret, !.tIat = now,
                                          !.exp = exp, !.token = token,
                                          !.presented = token]
              /\ crypto' = Signed(crypto, secret, signingInput)
    /\ UNCHANGED <<now, PASSWORDS, FI_FILMS, issued, last, sw, upload>>

\* Somebody else signs the text of the token under another secret.
ProbeSignAlso ==
    /\ probe.phase /= "none"
    /\ \E secret \in Secrets \ {probe.secret} :
          /\ crypto' = Signed(crypto, secret, SigningInput(probe.token))
          /\ crypto' /= crypto
    /\ UNCHANGED <<now, PASSWORDS, FI_FILMS, issued, last, probe, sw, upload>>

\* The characters a changed position may get: the next one of the base64
\* alphabet, a separator, and one outside the alphabet.
Successor(c) ==
    IF c \in B64Chars THEN B64Alphabet[((B64Val[c] + 1) % 64) + 1] ELSE "A"

TamperChars(c) == {Successor(c), ".", "!"}

\* The positions of the payload segment in header.payload.signature
PayloadPositions(token) ==
    LET parts == Split(token, ".")
    IN  (Len(parts[1]) + 2)..(Len(parts[1]) + 1 + Len(parts[2]))

\* One character of the payload segment is changed.
ProbeTamper ==
    /\ probe.phase = "signed"
    /\ probe.presented = probe.token
    /\ \E n \in PayloadPositions(probe.token) :
          \E c \in TamperChars(probe.token[n]) :
              probe' = [probe EXCEPT !.presented[n] = c]
    /\ UNCHANGED <<now, PASSWORDS, FI_FILMS, issued, crypto, last, sw, upload>>

\* The positions of the signature segment in header.payload.signature
SignaturePositions(token) ==
    LET parts == Split(token, ".")
    IN  (Len(parts[1]) + Len(parts[2]) + 3)..Len(token)

\* Texts that were never tokens: nothing, two parts, four parts, and three
\* parts of which the last is not base64.
Malformed ==
    {<<>>, <<"e", ".", "y">>, <<"e", ".", "y", ".", "A", ".", "A">>,
     <<"e", ".", "y", ".", "!">>, <<"e", ".", "y", ".", "A">>}

\* One character of the signature segment is changed, the last character is
\* cut off, or a text that never was a token is presented instead.
ProbeGarble ==
    /\ probe.phase = "signed"
    /\ probe.presented = probe.token
    /\ \/ \E n \in SignaturePositions(probe.token) :
              \E c \in TamperChars(probe.token[n]) :
                  probe' = [probe EXCEPT !.presented[n] = c]
       \/ probe' = [probe EXCEPT
                       !.presented = SubSeq(probe.token, 1,
                                            Len(probe.token) - 1)]
       \/ \E text \in Malformed : probe' = [probe EXCEPT !.presented = text]
    /\ UNCHANGED <<now, PASSWORDS, FI_FILMS, issued, crypto, last, sw, upload>>

\* verifyJWT(presented, secret)
ProbeVerify ==
    /\ probe.phase /= "none"
    /\ \E secret \in Secrets :
          probe' = [probe EXCEPT !.phase = IF probe.phase
                                                \in {"forged", "judged"}
                                             THEN "judged" ELSE "verified",
                                 !.with = secret,
                                 !.t = now,
                                 !.result = verifyJWT(crypto, probe.presented,
                                                      secret, now)]
    /\ UNCHANGED <<now, PASSWORDS, FI_FILMS, issued, crypto, last, sw, upload>>

NextCodec ==
    \/ Tick \/ ProbeSign \/ ProbeForge \/ ProbeSignAlso \/ ProbeTamper
    \/ ProbeGarble \/ ProbeVerify

SpecCodec == Init /\ [][NextCodec]_vars

\* The service worker on its own.
NextSW == Install \/ Activate \/ FetchEvent \/ PutSettles

SpecSW == Init /\ [][NextSW]_vars

\* A run of the upload script.
NextUpload == StartRun \/ Sync \/ Check \/ Size \/ Finish

SpecUpload == Init /\ [][NextUpload]_vars

(***************************************************************************)
(* What the properties below read off the exchange under observation.      *)
(***************************************************************************)

LastSegs   == Segments(last.request.path)
LastTenant == LastSegs[3]
LastToken  == Slice(last.request.authorization, 7)

IsAuth     == last.request.method = "POST" /\ authMatch(LastSegs)
IsDownload == last.request.method = "POST" /\ downloadMatch(LastSegs)
Answered   == last.outcome.kind = "response"
Status     == last.outcome.response.status

HasPassword ==
    last.request.body.kind = "object" /\ last.request.body.password /= <<>>

BearerForm ==
    /\ last.request.authorization /= <<>>
    /\ StartsWith(last.request.authorization, T_Bearer)

\* A token the gateway handed out for the slug and that has not run out at t.
Genuine(tok, slug, t) ==
    \E i \in issued : i.token = tok /\ i.slug = slug /\ t <= i.exp

Forbidden(request) ==
    jsonResponse([error |-> "Token expired or invalid"], 403, request)

(***************************************************************************)
(* Properties of the gateway, under Spec.                                  *)
(***************************************************************************)

\* C1: an original of a tenant is streamed, with status 200 on the download
\* route, only if the gateway has before answered an auth request for the
\* same tenant with a token, minted at most TokenTtl seconds before the
\* download.  Without such a token no original of the tenant is returned.
C1_OriginalOnlyWithFreshToken ==
    (IsDownload /\ Answered /\ Status = 200) =>
        /\ last.outcome.response.body =
               StreamBody(OriginalKey(LastTenant, LastSegs[5]))
        /\ \E i \in issued :
              /\ i.slug = LastTenant
              /\ i.at <= last.t
              /\ last.t - i.at <= TokenTtl

\* An original is streamed exactly TokenTtl seconds after the token was
\* minted.
C1_Witness ==
    /\ IsDownload /\ Answered /\ Status = 200
    /\ \E i \in issued : i.slug = LastTenant /\ last.t - i.at = TokenTtl

\* C2: a download request is answered, in this order of precedence, with 401
\* when the Authorization header is absent or not of the Bearer form, with
\* 403 when the token is not one the gateway minted for the tenant of the
\* path or has run out, with 404 when the original is not in the bucket, and
\* else with 200, the original as an attachment named {video}.mp4 with its
\* content type and length.  (The bucket answers the get.)
C2_DownloadPrecedence ==
    (IsDownload /\ ~last.r2Throws) =>
        LET request  == last.request
            response == last.outcome.response
            key      == OriginalKey(LastTenant, LastSegs[5])
        IN  /\ Answered
            /\ IF ~BearerForm
               THEN response = jsonResponse([error |-> "Authorization required"],
                                            401, request)
               ELSE IF ~Genuine(LastToken, LastTenant, last.t)
               THEN response.status = 403
               ELSE IF key \notin DOMAIN FI_FILMS
               THEN response.status = 404
               ELSE /\ response.status = 200
                    /\ response.headers["Content-Type"] = "video/mp4"
                    /\ response.headers["Content-Disposition"] =
                           <<"attachment; filename=\"", LastSegs[5], ".mp4\"">>
                    /\ response.headers["Content-Length"] = FI_FILMS[key]
                    /\ response.body = StreamBody(key)

\* C5: a token the gateway minted is invalid for verifyJWT at every time
\* after its exp, under the secret it was signed with, and a download
\* request that presents it then is answered 403.
C5_ExpiredTokenRefused ==
    /\ \A i \in issued :
          now > i.exp => verifyJWT(crypto, i.token, JWT_SECRET, now) = Null
    /\ \A i \in issued :
          (IsDownload /\ BearerForm /\ LastToken = i.token /\ last.t > i.exp)
              => Answered /\ last.outcome.response = Forbidden(last.request)

\* A download request presents a token of the right tenant that has run out.
C5_Witness ==
    /\ IsDownload /\ BearerForm /\ Answered /\ Status = 403
    /\ \E i \in issued :
          LastToken = i.token /\ i.slug = LastTenant /\ last.t > i.exp

\* C7: an auth request for tenant T with a password P in its body is
\* answered 200 with a token bound to T exactly when PASSWORDS holds an entry
\* for T that equals P; in every other case it is answered 401 and no token
\* is minted.  (PASSWORDS answers the get.)
C7_TokenIffPasswordMatches ==
    (IsAuth /\ HasPassword /\ ~last.kvThrows) =>
        LET T        == LastTenant
            P        == last.request.body.password
            response == last.outcome.response
            minted   == last.outcome.minted
            matches  == T \in DOMAIN PASSWORDS /\ PASSWORDS[T] = P
        IN  /\ Answered
            /\ matches <=> response.status = 200
            /\ matches =>
                  /\ minted /= <<>>
                  /\ response.body = JsonBody([token |-> minted[1]])
                  /\ verifyJWT(crypto, minted[1], JWT_SECRET, last.t)
                         .payload.slug = <<T>>
            /\ ~matches =>
                  /\ minted = <<>>
                  /\ response = jsonResponse([error |-> "Invalid password"],
                                             401, last.request)

\* An auth request with the stored password is answered with a token.
C7_Witness ==
    /\ IsAuth /\ HasPassword /\ Answered /\ Status = 200
    /\ last.outcome.minted /= <<>>

\* PASSWORDS with the entry of slug s removed, or set to p.
PasswordsWithout(s) == [k \in DOMAIN PASSWORDS \ {s} |-> PASSWORDS[k]]

PasswordsWith(s, p) ==
    [k \in DOMAIN PASSWORDS \cup {s} |-> IF k = s THEN p ELSE PASSWORDS[k]]

EnvWith(passwords) == [Env(FALSE, FALSE) EXCEPT !.PASSWORDS = passwords]

\* C8: the answer to an auth request for a tenant that has no entry in
\* PASSWORDS is the same response, in status, headers and body, as the answer
\* to the same request when the tenant has an entry and the password is
\* wrong.
C8_UnknownTenantAsWrongPassword ==
    (IsAuth /\ HasPassword /\ ~last.kvThrows) =>
        LET T        == LastTenant
            P        == last.request.body.password
            absent   == handleAuth(last.request, EnvWith(PasswordsWithout(T)),
                                   T, last.t, last.t)
            wrong(p) == handleAuth(last.request, EnvWith(PasswordsWith(T, p)),
                                   T, last.t, last.t)
        IN  /\ absent.kind = "response"
            /\ \A p \in Passwords \ {P} :
                  /\ wrong(p).kind = "response"
                  /\ wrong(p).response = absent.response
            /\ (T \notin DOMAIN PASSWORDS \/ PASSWORDS[T] /= P) =>
                  Answered /\ last.outcome.response = absent.response

\* An auth request for a tenant without an entry has been answered.
C8_Witness ==
    /\ IsAuth /\ HasPassword /\ Answered /\ Status = 401
    /\ LastTenant \notin DOMAIN PASSWORDS

\* C9: a download request whose token is one the gateway minted, has not
\* run out, but is bound to another tenant than the one of the path, is
\* answered with the same 403 response as a request whose token has a wrong
\* signature and as a request whose token has run out.
C9_MismatchAsInvalid ==
    \A i \in issued :
        (IsDownload /\ BearerForm /\ LastToken = i.token
         /\ i.slug /= LastTenant /\ last.t <= i.exp) =>
            LET request == last.request
                videoId == LastSegs[5]
                forged  == [request EXCEPT !.authorization = T_Bearer \o
                               WithPayload(i.token,
                                           Claims(<<LastTenant>>, <<i.at>>,
                                                  <<i.exp>>))]
                invalid == handleDownload(forged, Env(FALSE, FALSE),
                                          LastTenant, videoId, last.t)
                own     == [request EXCEPT !.path =
                               Path(<<T_Couples, i.slug, T_Download, videoId>>)]
                expired == handleDownload(own, Env(FALSE, FALSE), i.slug,
                                          videoId, i.exp + 1)
            IN  /\ Answered /\ Status = 403
                /\ invalid.kind = "response"
                /\ expired.kind = "response"
                /\ last.outcome.response = invalid.response
                /\ last.outcome.response = expired.response

\* A download request presents a live token of the other tenant.
C9_Witness ==
    /\ IsDownload /\ BearerForm /\ Answered /\ Status = 403
    /\ \E i \in issued :
          LastToken = i.token /\ i.slug /= LastTenant /\ last.t <= i.exp

\* C10: whatever fails while a request is handled, fetch answers it, and a
\* request during which a store failed is answered with the 500 response
\* `Internal server error`.
C10_FaultsAnswered500 ==
    last.outcome.kind /= "none" =>
        /\ Answered
        /\ (last.kvThrows \/ last.r2Throws) =>
              /\ Status = 500
              /\ last.outcome.response.body =
                     JsonBody([error |-> "Internal server error"])

(***************************************************************************)
(* Properties of signJWT and verifyJWT, under SpecCodec.                   *)
(***************************************************************************)

Verified    == probe.phase = "verified"
Untouched   == probe.presented = probe.token

\* The positions at which the presented text differs from the signed token.
Changed ==
    IF Len(probe.presented) /= Len(probe.token) THEN {0}
    ELSE {n \in 1..Len(probe.token) : probe.presented[n] /= probe.token[n]}

\* C3: a token that signJWT has just made for tenant T under secret S, and
\* that verifyJWT is given under S before the clock moves again, comes back
\* as a payload with slug = T, iat and exp, and exp = iat + TokenTtl; this
\* whatever the clock does while signJWT runs.
C3_RoundTrip ==
    (Verified /\ Untouched /\ probe.with = probe.secret
     /\ probe.t = probe.tIat) =>
        /\ probe.result.kind = "payload"
        /\ probe.result.payload.slug = <<probe.slug>>
        /\ probe.result.payload.iat /= <<>>
        /\ probe.result.payload.exp /= <<>>
        /\ probe.result.payload.exp[1] =
               probe.result.payload.iat[1] + TokenTtl

\* C4: a token signed under secret S is invalid for verifyJWT under every
\* other secret, also when somebody has signed the same text under that
\* other secret.
C4_OtherSecretInvalid ==
    (Verified /\ Untouched /\ probe.with /= probe.secret) =>
        probe.result = Null

\* The token is verified under the other secret, which has signed the same
\* text too.
C4_Witness ==
    /\ Verified /\ Untouched /\ probe.with /= probe.secret
    /\ Len(crypto) = 2
    /\ probe.result = Null

\* C6: a token of which one character of the payload segment was changed is
\* invalid for verifyJWT under the secret it was signed with.
C6_TamperedPayloadInvalid ==
    (Verified /\ probe.with = probe.secret
     /\ Cardinality(Changed) = 1
     /\ Changed \subseteq PayloadPositions(probe.token)) =>
        probe.result = Null

\* A token with one payload character replaced by another of the base64
\* alphabet was verified under its own secret while it had not run out.
C6_Witness ==
    /\ Verified /\ probe.with = probe.secret
    /\ probe.t <= probe.tExp + TokenTtl
    /\ \E n \in PayloadPositions(probe.token) :
          /\ Changed = {n}
          /\ probe.presented[n] \in B64Chars
    /\ probe.result = Null

\* C11: verifyJWT never raises: a text that is not three parts, or whose
\* signature part or payload part cannot be decoded, is invalid (null), and
\* every verification ends in a payload or in null.
C11_VerifyTotal ==
    Verified => probe.result.kind \in {"payload", "null"}

(***************************************************************************)
(* Routing.  A route is written /{base}/{tenant}/{word}/{rest}: Intent     *)
(* names what a method and a path ask for when the routes hang under the   *)
(* segments base, and Routed what the gateway has to answer then.          *)
(***************************************************************************)

IntentOf(method, tenant, word, rest) ==
    IF tenant = <<>> THEN "none"
    ELSE IF method = "POST" /\ word = T_Auth /\ rest = <<>>
    THEN "issue-credential"
    ELSE IF method = "POST" /\ word = T_Download /\ Len(rest) = 1
            /\ Join(rest, "/") /= <<>>
    THEN "protected-original"
    ELSE IF method = "GET" /\ word = T_Hls /\ Join(rest, "/") /= <<>>
    THEN "public-stream"
    ELSE IF method = "GET" /\ word = T_Thumbs /\ Len(rest) = 1
            /\ EndsWith(Join(rest, "/"), T_Jpg)
            /\ Len(Join(rest, "/")) > Len(T_Jpg)
    THEN "public-thumbnail"
    ELSE "none"

Intent(method, segs, n) ==
    IF Len(segs) < n + 3 \/ segs[1] /= <<>> THEN "none"
    ELSE IntentOf(method, segs[n + 2], segs[n + 3],
                  SubSeq(segs, n + 4, Len(segs)))

\* The environment the last request was handled in.
LastEnv == Env(last.kvThrows, last.r2Throws)

\* What the handler of an intent makes of the last request.
Routed(intent, tenant, resource) ==
    IF intent = "issue-credential"
    THEN last.outcome = handleAuth(last.request, LastEnv, tenant, last.t, now)
    ELSE IF intent = "protected-original"
    THEN last.outcome =
             handleDownload(last.request, LastEnv, tenant, resource, last.t)
    ELSE IF intent = "public-stream"
    THEN last.outcome = handleHLS(last.request, LastEnv, last.request.path)
    ELSE IF intent = "public-thumbnail"
    THEN last.outcome = handleThumb(last.request, LastEnv, last.request.path)
    ELSE /\ Answered /\ Status = 404
         /\ last.outcome.response.body = JsonBody([error |-> "Not found"])
         /\ last.outcome.calls = <<>>

\* The last request, when it is not OPTIONS, was routed by the table whose
\* routes hang under n fixed segments, the first of which are base.
RoutedUnder(base) ==
    (last /= Idle /\ last.request.method /= "OPTIONS") =>
        IF StartsWith(Slice(LastSegs, 1), base)
        THEN Routed(Intent(last.request.method, LastSegs, Len(base)),
                    LastSegs[Len(base) + 2], LastSegs[Len(base) + 4])
        ELSE Routed("none", <<>>, <<>>)

C13_NoPasswordIs400 ==
    (IsAuth /\ ~HasPassword) => (Answered /\ Status = 400)

(***************************************************************************)
(* Cross-origin headers.                                                   *)
(***************************************************************************)

\* The host label of an origin https://{label}.flyiniris.com, and whether
\* the origin is the apex or such a subdomain with one label.
SubLabel(origin) ==
    SubSeq(origin, Len(T_Https) + 1, Len(origin) - Len(T_SubSuffix))

ApexOrDirectSubdomain(origin) ==
    \/ origin = T_Apex
    \/ /\ StartsWith(origin, T_Https) /\ EndsWith(origin, T_SubSuffix)
       /\ Len(origin) > Len(T_Https) + Len(T_SubSuffix)
       /\ \A n \in 1..Len(SubLabel(origin)) : SubLabel(origin)[n] /= "."

LastHeaders == last.outcome.response.headers

\* C14: the allow-origin header of a response is the Origin of the request
\* when that is https://flyiniris.com or https://{label}.flyiniris.com with
\* a single label, and '*' for every other Origin and for none.
C14_ReflectsApexAndDirectSubdomains ==
    Answered =>
        /\ "Access-Control-Allow-Origin" \in DOMAIN LastHeaders
        /\ LastHeaders["Access-Control-Allow-Origin"] =
               IF ApexOrDirectSubdomain(last.request.origin)
               THEN last.request.origin ELSE <<"*">>

(***************************************************************************)
(* Error answers.                                                          *)
(***************************************************************************)

LastIntent == Intent(last.request.method, LastSegs, 1)

\* The exchange ended in a 2xx response.
Succeeded == Answered /\ Status \in 200..299

\* The body is {"error": string}.
ErrorBody ==
    /\ last.outcome.response.body.kind = "json"
    /\ DOMAIN last.outcome.response.body.json = {"error"}
    /\ last.outcome.response.body.json.error \in STRING

\* The password sent is not the one stored for the tenant, if any is.
PasswordRefused ==
    \/ LastTenant \notin DOMAIN PASSWORDS
    \/ PASSWORDS[LastTenant] /= last.request.body.password

\* The object the request names is not in the bucket.
ObjectAbsent ==
    IF IsDownload
    THEN Join(<<T_Couples, LastTenant, T_Originals, LastSegs[5] \o T_Mp4>>,
              "/") \notin DOMAIN FI_FILMS
    ELSE Slice(last.request.path, 1) \notin DOMAIN FI_FILMS

\* The status of an error answer fits what went wrong.
StatusFitsCause ==
    /\ Status \in {400, 401, 403, 404, 500}
    /\ Status = 400 => IsAuth /\ ~HasPassword
    /\ Status = 401 => \/ IsAuth /\ HasPassword /\ PasswordRefused
                       \/ IsDownload /\ ~BearerForm
    /\ Status = 403 => /\ IsDownload /\ BearerForm
                       /\ ~Genuine(LastToken, LastTenant, last.t)
    /\ Status = 404 => \/ LastIntent = "none"
                       \/ /\ LastIntent \in {"protected-original",
                                              "public-stream",
                                              "public-thumbnail"}
                          /\ ObjectAbsent

\* C15: every response that is not a success has a body {"error": string}
\* and a status of 400, 401, 403, 404 or 500; 400 only for a body without
\* password, 401 only for a refused password or a missing bearer header,
\* 403 only for a token that is not a live token of the tenant, 404 only
\* for an absent object or an unmatched route.
C15_ErrorsAreJson ==
    (Answered /\ ~Succeeded) => (ErrorBody /\ StatusFitsCause)

\* A download was refused with 403 and an error body because its token was
\* minted for the other tenant.
C15_Witness ==
    /\ Answered /\ Status = 403 /\ ErrorBody
    /\ IsDownload
    /\ Genuine(LastToken, OtherSlug(LastTenant), last.t)

\* The three cross-origin headers of a response.
CorsHeaders ==
    /\ {"Access-Control-Allow-Origin", "Access-Control-Allow-Methods",
        "Access-Control-Allow-Headers"} \subseteq DOMAIN LastHeaders
    /\ LastHeaders["Access-Control-Allow-Methods"] = "GET, POST, OPTIONS"
    /\ LastHeaders["Access-Control-Allow-Headers"] =
           "Content-Type, Authorization"
    /\ LastHeaders["Access-Control-Allow-Origin"]
           \in {<<"*">>, last.request.origin}

\* C16: on every route and for every outcome, a failure of a store
\* included, the gateway answers with a response that carries
\* Access-Control-Allow-Methods 'GET, POST, OPTIONS',
\* Access-Control-Allow-Headers 'Content-Type, Authorization' and an
\* Access-Control-Allow-Origin.
C16_EveryOutcomeCarriesCors ==
    last /= Idle => (Answered /\ CorsHeaders)

\* C17: an OPTIONS request, whatever its path, is answered 204 with no
\* body, the three cross-origin headers and Access-Control-Max-Age 86400,
\* and neither PASSWORDS nor FI_FILMS is read for it.
C17_PreflightUniform ==
    (last /= Idle /\ last.request.method = "OPTIONS") =>
        /\ Answered /\ Status = 204
        /\ last.outcome.response.body = NoBody
        /\ CorsHeaders
        /\ "Access-Control-Max-Age" \in DOMAIN LastHeaders
        /\ LastHeaders["Access-Control-Max-Age"] = "86400"
        /\ last.outcome.calls = <<>>

\* OPTIONS on the path of the auth route, from the apex, was answered 204.
C17_Witness ==
    /\ last.request.method = "OPTIONS"
    /\ last.request.path = Path(<<T_Couples, <<"a", "b">>, T_Auth>>)
    /\ last.request.origin = T_Apex
    /\ Answered /\ Status = 204
    /\ LastHeaders["Access-Control-Max-Age"] = "86400"

(***************************************************************************)
(* Public objects: streams and thumbnails.                                 *)
(***************************************************************************)

T_MaxAgeHour == <<"m", "a", "x", "-", "a", "g", "e", "=", "3", "6", "0", "0">>
T_MaxAgeYear == <<"m", "a", "x", "-", "a", "g", "e", "=", "3", "1", "5", "3", "6", "0", "0", "0">>
T_Immutable  == <<"i", "m", "m", "u", "t", "a", "b", "l", "e">>
T_DotM3u8    == <<".">> \o T_M3u8
T_DotTs      == <<".">> \o T_Ts

\* A directive without the blanks in front of it.
TrimLeft(text) ==
    SubSeq(text, (CHOOSE n \in 1..(Len(text) + 1) :
                     /\ \A k \in 1..(n - 1) : text[k] = " "
                     /\ n = Len(text) + 1 \/ text[n] /= " "),
           Len(text))

\* The directives of a Cache-Control value, which separates them by commas.
Directives(value) ==
    {TrimLeft(Split(value, ",")[n]) : n \in 1..Len(Split(value, ","))}

\* The key the last request names, and whether the bucket has it.
LastKey     == Slice(last.request.path, 1)
LastExists  == LastKey \in DOMAIN FI_FILMS
LastCaching ==
    IF "Cache-Control" \in DOMAIN LastHeaders
    THEN Directives(LastHeaders["Cache-Control"]) ELSE {}
LastType ==
    IF "Content-Type" \in DOMAIN LastHeaders
    THEN LastHeaders["Content-Type"] ELSE ""

\* C18: a stream GET that the bucket answers returns, for an object that
\* exists, 200, with max-age=3600 and application/vnd.apple.mpegurl when
\* the key ends in .m3u8 and with max-age=31536000 and video/MP2T when it
\* ends in .ts, however deep under hls/; for an object that does not exist
\* it returns 404.
C18_StreamCaching ==
    (last /= Idle /\ LastIntent = "public-stream" /\ ~last.r2Throws) =>
        /\ Answered
        /\ IF LastExists
           THEN /\ Status = 200
                /\ EndsWith(LastKey, T_DotM3u8) =>
                       /\ T_MaxAgeHour \in LastCaching
                       /\ T_MaxAgeYear \notin LastCaching
                       /\ LastType = "application/vnd.apple.mpegurl"
                /\ EndsWith(LastKey, T_DotTs) =>
                       /\ T_MaxAgeYear \in LastCaching
                       /\ T_MaxAgeHour \notin LastCaching
                       /\ LastType = "video/MP2T"
           ELSE Status = 404

\* A playlist was served with the short lifetime; the bucket also holds a
\* segment two levels below hls/.
C18_Witness ==
    /\ LastIntent = "public-stream" /\ Answered /\ Status = 200
    /\ EndsWith(LastKey, T_DotM3u8)
    /\ T_MaxAgeHour \in LastCaching
    /\ LastType = "application/vnd.apple.mpegurl"
    /\ SegmentKey(LastTenant) \in DOMAIN FI_FILMS

\* C19: the answer to a GET of a segment (.ts) or of a thumbnail (.jpg)
\* that exists carries a Cache-Control with max-age=31536000 and the
\* directive immutable, a thumbnail with Content-Type image/jpeg; a GET of
\* a thumbnail that does not exist is answered 404.
C19_LongLivedImmutable ==
    (last /= Idle /\ ~last.r2Throws) =>
        /\ (/\ LastExists
            /\ \/ LastIntent = "public-stream" /\ EndsWith(LastKey, T_DotTs)
               \/ LastIntent = "public-thumbnail") =>
               /\ Answered /\ Status = 200
               /\ T_MaxAgeYear \in LastCaching
               /\ T_Immutable \in LastCaching
               /\ LastIntent = "public-thumbnail" => LastType = "image/jpeg"
        /\ (LastIntent = "public-thumbnail" /\ ~LastExists) =>
               Answered /\ Status = 404

\* The last request with another Authorization header.
LastWith(authorization) ==
    [last.request EXCEPT !.authorization = authorization]

\* C20: the outcome of a GET of a stream or of a thumbnail is the same for
\* every Authorization header (none, text that is no token, and the tokens
\* minted for either tenant, live or run out), and PASSWORDS is not read
\* for it.
C20_PublicIgnoresAuthorization ==
    (last /= Idle /\ LastIntent \in {"public-stream", "public-thumbnail"}) =>
        /\ \A a \in PublicAuthorizations :
               fetch(LastWith(a), LastEnv, last.t, last.t, now) = last.outcome
        /\ \A k \in 1..Len(last.outcome.calls) :
               last.outcome.calls[k].store /= "PASSWORDS"

\* A thumbnail was served to a request carrying a token that was minted for
\* the other tenant and has run out.
C20_Witness ==
    /\ LastIntent = "public-thumbnail" /\ Answered /\ Status = 200
    /\ \E i \in issued :
          /\ last.request.authorization = T_Bearer \o i.token
          /\ i.slug /= LastTenant
          /\ last.t > i.exp

(***************************************************************************)
(* The gateway and its stores.                                             *)
(***************************************************************************)

C22_RotationKeepsTokens ==
    /\ \A i \in issued :
          (/\ IsDownload /\ BearerForm /\ LastToken = i.token
           /\ LastTenant = i.slug /\ last.t <= i.exp /\ ~last.r2Throws) =>
              /\ Answered
              /\ Status = IF OriginalKey(LastTenant, LastSegs[5])
                                \in DOMAIN FI_FILMS
                          THEN 200 ELSE 404
    /\ (IsAuth /\ HasPassword /\ ~last.kvThrows /\ PasswordRefused) =>
          /\ Answered /\ Status = 401
          /\ last.outcome.minted = <<>>

\* An original was streamed on a live token of a tenant whose password has
\* been deleted since the token was minted.
C22_Witness ==
    /\ IsDownload /\ Answered /\ Status = 200
    /\ LastTenant \notin DOMAIN PASSWORDS
    /\ \E i \in issued :
          LastToken = i.token /\ i.slug = LastTenant /\ last.t <= i.exp

LastCalls == last.outcome.calls

LastKeys ==
    {LastCalls[k].key : k \in {n \in 1..Len(LastCalls) :
                                  LastCalls[n].store = "FI_FILMS"}}

\* C24: a GET, however its path is written, makes the gateway ask the
\* bucket only for keys couples/{tenant}/hls/... and
\* couples/{tenant}/thumbs/... of the tenant in the path, never for a key
\* under originals/.
C24_PublicRoutesNeverReachOriginals ==
    (last /= Idle /\ last.request.method = "GET") =>
        \A key \in LastKeys :
            /\ StartsWith(key, Join(<<T_Couples, LastTenant, T_Hls, <<>>>>,
                                    "/"))
               \/ StartsWith(key, Join(<<T_Couples, LastTenant, T_Thumbs,
                                         <<>>>>, "/"))
            /\ Split(key, "/")[3] /= T_Originals

\* The path /couples/ab/hls/..%2Foriginals%2Fv1.mp4 was asked for: the
\* bucket was asked for that very key below hls/ and had no such object.
C24_Witness ==
    /\ last.request.method = "GET" /\ Answered /\ Status = 404
    /\ LastKeys =
           {Join(<<T_Couples, <<"a", "b">>, T_Hls,
                   <<".", ".", "%", "2", "F">> \o T_Originals
                   \o <<"%", "2", "F", "v", "1">> \o T_Mp4>>, "/")}


\* The bucket with the object under key taken out if it is there and put in
\* if it is not.
FilmsToggled(key) ==
    IF key \in DOMAIN FI_FILMS
    THEN [k \in DOMAIN FI_FILMS \ {key} |-> FI_FILMS[k]]
    ELSE [k \in DOMAIN FI_FILMS \cup {key} |->
              IF k = key THEN 1 ELSE FI_FILMS[k]]

\* C25: in a download request the bucket is asked only for
\* couples/{tenant}/originals/{videoId}.mp4 and only when the request bears
\* a valid token of the tenant in the path; a request without such a token
\* is answered 401 or 403, and the answer is the same whether or not the
\* original is in the bucket.
C25_BucketAfterVerification ==
    (last /= Idle /\ IsDownload) =>
        LET key   == OriginalKey(LastTenant, LastSegs[5])
            valid == BearerForm /\ Genuine(LastToken, LastTenant, last.t)
        IN  /\ LastKeys \subseteq {key}
            /\ LastKeys /= {} => valid
            /\ ~valid =>
                  /\ Answered /\ Status \in {401, 403}
                  /\ last.outcome =
                        fetch(last.request,
                              [Env(last.kvThrows, last.r2Throws)
                                   EXCEPT !.FI_FILMS = FilmsToggled(key)],
                              last.t, last.t, last.t)


\* C26: a token of signJWT, verified as it was signed and under its secret,
\* is turned down exactly when its exp lies before the second of the
\* verification, so it is taken in the second that equals its exp; and a
\* payload signed under the secret that has no exp, or exp 0, is taken
\* whatever the clock reads.
C26_ExpiryExclusive ==
    /\ (Verified /\ Untouched /\ probe.with = probe.secret) =>
          /\ probe.tExp + TokenTtl < probe.t => probe.result = Null
          /\ probe.tExp + TokenTtl >= probe.t =>
                probe.result =
                    Payload(Claims(<<probe.slug>>, <<probe.tIat>>,
                                   <<probe.tExp + TokenTtl>>))
    /\ (probe.phase = "judged" /\ probe.with = probe.secret) =>
          probe.result =
              Payload(Claims(<<probe.slug>>, <<probe.tIat>>, probe.exp))

\* A token was verified in the very second its exp names, and taken.
C26_Witness ==
    /\ Verified /\ Untouched /\ probe.with = probe.secret
    /\ probe.t = probe.tExp + TokenTtl
    /\ probe.result.kind = "payload"


(***************************************************************************)
(* Properties of the service worker, under SpecSW.                         *)
(***************************************************************************)

\* A step in which the activated worker handles a fetch event: the event
\* of the state after is the one handled, in the caches of the state
\* before.
FetchStep ==
    /\ sw.state = "activated" /\ sw'.state = "activated"
    /\ sw'.caches = sw.caches
    /\ sw.pending \subseteq sw'.pending

SwAnswer == sw.event.answer

\* C27: the worker's cache never holds an entry whose URL path ends in .ts
\* or .m3u8, and a fetch event for such a URL is answered with what the
\* network gives: the network is asked, the caches are not looked at, and
\* no cache.put is set off for it.
C27_StreamingNeverCached ==
    /\ \A name \in DOMAIN sw.caches : \A u \in DOMAIN sw.caches[name] :
          /\ ~EndsWith(u.pathname, T_DotTs)
          /\ ~EndsWith(u.pathname, T_DotM3u8)
    /\ \A p \in sw.pending :
          /\ ~EndsWith(p.request.url.pathname, T_DotTs)
          /\ ~EndsWith(p.request.url.pathname, T_DotM3u8)
    /\ (sw.event /= NoEvent
        /\ \/ EndsWith(sw.event.request.url.pathname, T_DotTs)
           \/ EndsWith(sw.event.request.url.pathname, T_DotM3u8)) =>
          /\ sw.event.fetched /\ ~sw.event.consulted
          /\ SwAnswer = FromNetwork(sw.event.network)

\* A playlist on a CDN host was asked for and came from the network, the
\* cache holding other entries of that host.
C27_Witness ==
    /\ sw.event.request.url.hostname = CdnHost
    /\ EndsWith(sw.event.request.url.pathname, T_DotM3u8)
    /\ SwAnswer.kind = "response" /\ SwAnswer.source = "network"
    /\ SwAnswer.status = 200
    /\ Cardinality(DOMAIN sw.caches[CACHE_NAME]) > Len(SHELL_ASSETS)

ThumbOrCdn(url) ==
    \/ includes(url.pathname, <<"/">> \o T_Thumbs \o <<"/">>)
    \/ url.hostname \in {"fonts.googleapis.com", "fonts.gstatic.com",
                         "cdn.vidstack.io"}

\* C28: a fetch event for a URL whose path contains /thumbs/ or whose host
\* is one of the three CDN hosts is answered with the cached entry, the
\* network not being asked, when caches.match finds one; when it finds
\* none the network is asked and its response is the answer, and a
\* cache.put is set off only for a response that is ok.
C28_CacheFirst ==
    [][(FetchStep /\ ThumbOrCdn(sw'.event.request.url)) =>
          LET event  == sw'.event
              cached == CachesMatch(sw.caches, event.request)
          IN  IF cached /= <<>>
              THEN /\ event.answer = FromCache(cached[1])
                   /\ ~event.fetched
                   /\ sw'.pending = sw.pending
              ELSE /\ event.fetched
                   /\ event.answer = FromNetwork(event.network)
                   /\ \A p \in sw'.pending \ sw.pending :
                         /\ p = Put(event.request, event.network)
                         /\ ok(event.network)]_sw

\* A thumbnail that an earlier fetch had stored was answered from the
\* cache while the network was down.
C28_Witness ==
    /\ sw.event.request.method = "GET"
    /\ includes(sw.event.request.url.pathname, <<"/">> \o T_Thumbs \o <<"/">>)
    /\ sw.event.network = 0
    /\ sw.event.consulted /\ ~sw.event.fetched
    /\ SwAnswer = FromCache(200)

\* C29: a fetch event for any other URL is answered with the response of
\* the network whenever the network gives one, ok or not, without the
\* caches being looked at, and a cache.put is set off only for an ok
\* response to a GET; when the fetch is rejected the answer is the cached
\* entry of the request if there is one.
C29_NetworkFirst ==
    [][(FetchStep /\ ~ThumbOrCdn(sw'.event.request.url)
        /\ ~EndsWith(sw'.event.request.url.pathname, T_DotTs)
        /\ ~EndsWith(sw'.event.request.url.pathname, T_DotM3u8)) =>
          LET event  == sw'.event
              cached == CachesMatch(sw.caches, event.request)
          IN  /\ event.fetched
              /\ event.consulted <=> event.network = 0
              /\ event.network /= 0 =>
                    /\ event.answer = FromNetwork(event.network)
                    /\ \A p \in sw'.pending \ sw.pending :
                          /\ p = Put(event.request, event.network)
                          /\ ok(event.network)
                          /\ event.request.method = "GET"
              /\ event.network = 0 =>
                    /\ sw'.pending = sw.pending
                    /\ cached /= <<>> => event.answer = FromCache(cached[1])
                    /\ cached = <<>> => event.answer.kind = "error"]_sw

\* The page was asked for with the network giving a 404 while the cache
\* held the page: the 404 was the answer.
C29_Witness ==
    /\ sw.event.request = SwRequest("GET", Url(PageHost, <<"/">>))
    /\ sw.event.network = 404
    /\ Url(PageHost, <<"/">>) \in DOMAIN sw.caches[CACHE_NAME]
    /\ SwAnswer = FromNetwork(404)
    /\ ~sw.event.consulted


(***************************************************************************)
(* Properties of the upload script, under SpecUpload.                      *)
(***************************************************************************)

\* The uploads and verifications a run has to make.
Required ==
    {<<stage, Parts[n]>> :
         stage \in {"sync", "check"},
         n \in {k \in 1..Len(Parts) : Parts[k] /= "thumbs" \/ upload.thumbs}}

\* C30: a run that has ended has made every upload and every verification,
\* whatever failed on the way, and its exit status is other than 0 exactly
\* when one of them failed; otherwise it ends saying that all uploads
\* completed successfully.
C30_ExitTellsFailure ==
    upload.stage = "done" =>
        /\ upload.attempted = Required
        /\ upload.exit /= <<0>> <=> upload.failed /= {}
        /\ upload.failed = {} => upload.said = "success"

====
